---- MODULE Spec2Model ----
(***************************************************************************)
(* Model of the LeCroy WaveJet 300 driver (ivi/lecroy/lecroyWaveJet300.py): *)
(* the attribute validity cache behind every scalar accessor and the       *)
(* allocator of the four hardware measurement slots.                       *)
(*                                                                         *)
(* Python values are tagged tuples, so that values of different Python     *)
(* types can be compared: B(TRUE) is True, S("dc") is 'dc', N(50) is the   *)
(* number 50 (int or float: Python compares them by value).  Numbers are   *)
(* integers in a unit fixed per attribute: times in nanoseconds, voltages  *)
(* in millivolts, frequencies in megahertz, the rest in their own unit.    *)
(*                                                                         *)
(* The transport is not modelled as a process: every call of _write, _ask  *)
(* and time.sleep made by an operation is appended to the operation's io   *)
(* trace, and the reply to an _ask is an input of the operation (the       *)
(* instrument can be changed from its front panel, so a reply is any       *)
(* string of the query's vocabulary).                                      *)
(***************************************************************************)
EXTENDS Integers, Sequences, FiniteSets, TLC

B(b) == <<"bool", b>>
S(s) == <<"str", s>>
N(n) == <<"num", n>>
NaN == <<"nan">>
None == <<"None">>

\* Highest channel index the callers use (indices are 0-based).
MaxIndex == 1
\* Number of distinct device settings one session works on.
MaxSettings == 1

channel_count == 4
horizontal_divisions == 10
vertical_divisions == 8

Indices == 0..MaxIndex
channel_name == [i \in 0..(channel_count - 1) |-> "CH" \o ToString(i + 1)]
channel_command_name == [i \in 0..(channel_count - 1) |-> "C" \o ToString(i + 1)]
ChannelNames == {channel_name[i] : i \in 0..(channel_count - 1)}

MeasurementFunctionMapping ==
  [ rise_time |-> "tr10-90", fall_time |-> "tf90-10", frequency |-> "freq",
    period |-> "period", voltage_rms |-> "vrms", voltage_peak_to_peak |-> "p-p",
    voltage_max |-> "max", voltage_min |-> "min", voltage_high |-> "top",
    voltage_low |-> "base", voltage_average |-> "vmean",
    width_negative |-> "-width", width_positive |-> "+width",
    duty_cycle_positive |-> "duty", amplitude |-> "t-b",
    voltage_cycle_rms |-> "cvrms", voltage_cycle_average |-> "cvmean",
    overshoot |-> "+oshot", preshoot |-> "-oshot" ]

\* Measurement functions the callers ask for; "phase" is an IVI function the
\* instrument's mapping does not have.
MeasFunctions == {"frequency", "period", "voltage_rms", "phase"}

SlotOrder == <<"A", "B", "C", "D">>
SlotIds == {SlotOrder[k] : k \in 1..Len(SlotOrder)}

VARIABLES
  simulate,           \* _driver_operation_simulate
  val,                \* the cached attribute values, by <<tag, index>>
  cache_valid,        \* the validity flags, by <<tag, index>>
  measurement_slots,  \* _measurement_slots: slot -> <<channel, function>> or None
  touched,            \* the device settings whose accessors have been called
  last,               \* the last operation: its arguments, outcome and io trace
  device_slots        \* the instrument's own binding of each measurement slot

vars ==
  <<simulate, val, cache_valid, measurement_slots, touched, last, device_slots>>

\* The index of an attribute that has no channel: "self._get_cache_valid()"
\* without an index argument.
NoIndex == -1

GlobalTags ==
  { "timebase_mode", "timebase_position", "timebase_range", "timebase_scale",
    "display_vectors", "acquisition_type", "acquisition_record_length",
    "acquisition_time_per_record", "acquisition_number_of_averages",
    "acquisition_sample_mode", "trigger_coupling", "trigger_holdoff",
    "trigger_level", "trigger_edge_slope", "trigger_source", "trigger_type",
    "trigger_continuous" }

ChannelTags ==
  { "channel_enabled", "channel_input_impedance", "channel_input_frequency_max",
    "channel_probe_attenuation", "channel_probe_attenuation_auto",
    "channel_bw_limit", "channel_coupling", "channel_offset", "channel_range",
    "channel_scale" }

Entries == (GlobalTags \X {NoIndex}) \cup (ChannelTags \X Indices)

\* The attribute values the driver's own constructor and _init_channels set.
DriverDefaults ==
  [ timebase_mode |-> S("main"), timebase_position |-> N(0),
    timebase_range |-> N(1000000), timebase_scale |-> N(100000),
    display_vectors |-> B(TRUE), channel_scale |-> N(1000),
    channel_bw_limit |-> B(FALSE) ]

\* The attribute values the scope base classes set before the driver's own.
BaseDefaults ==
  [ acquisition_type |-> S("normal"), acquisition_record_length |-> N(1000),
    acquisition_time_per_record |-> N(1000000),
    acquisition_number_of_averages |-> N(1),
    acquisition_sample_mode |-> S("real_time"), trigger_coupling |-> S("dc"),
    trigger_holdoff |-> N(0), trigger_level |-> N(0),
    trigger_edge_slope |-> S("positive"), trigger_source |-> S(""),
    trigger_type |-> S("edge"), trigger_continuous |-> B(FALSE),
    channel_enabled |-> B(FALSE), channel_input_impedance |-> N(1000000),
    channel_input_frequency_max |-> N(1000), channel_probe_attenuation |-> N(1),
    channel_probe_attenuation_auto |-> B(FALSE), channel_coupling |-> S("dc"),
    channel_offset |-> N(0), channel_range |-> N(1000) ]

DefaultOf(tag) ==
  IF tag \in DOMAIN DriverDefaults THEN DriverDefaults[tag] ELSE BaseDefaults[tag]

\* _get_cache_valid(tag, index): an entry never marked is invalid.
get_cache_valid(cv, tag, index) == cv[<<tag, index>>]

\* _set_cache_valid(valid, tag, index)
set_cache_valid(cv, valid, tag, index) == [cv EXCEPT ![<<tag, index>>] = valid]

\* The io trace records every transport call and every sleep, in order.
Write(cmd) == <<"write", cmd>>
WriteNum(fmt, n) == <<"write", fmt, n>>
Ask(cmd, reply) == <<"ask", cmd, reply>>
Sleep(seconds) == <<"sleep", seconds>>

\* What the last operation was called with and what came of it: the value it
\* returned, the exception it raised ("none" if it returned), its io trace, and
\* (a measurement fetch) the assignment it overwrote in the slot it configured.
Outcome(op, tag, index, arg, result, raised, io) ==
  [ op |-> op, tag |-> tag, index |-> index, arg |-> arg, result |-> result,
    raised |-> raised, io |-> io, old |-> None ]

\* The instrument's side of the measurement slots.  A stored setup carries
\* slot bindings: one with no slot bound, one with slot D bound.
WriteBlock(data) == <<"write_ieee_block", data>>
Unbound == [s \in SlotIds |-> None]
Setups == {Unbound, [Unbound EXCEPT !["D"] = <<"CH2", "period">>]}
SlotPairs ==
  {<<c, MeasurementFunctionMapping[f]>> :
     c \in ChannelNames, f \in DOMAIN MeasurementFunctionMapping}

\* The commands that direct to a slot and that bind a pair, as the driver
\* formats them, each with the slot or pair it names.
DIRMCommands == {<<"DIRM " \o s, s>> : s \in SlotIds}
MSELCommands == {<<"MSEL " \o p[1] \o ", " \o p[2], p>> : p \in SlotPairs}

\* The bindings the instrument holds after it received the commands of an io
\* trace from position k on: *RST unbinds every slot, a loaded setup replaces
\* the bindings, DIRM directs the commands that follow to a slot and MSEL
\* binds the slot they are directed to.
RECURSIVE DeviceReceives(_, _, _, _)
DeviceReceives(bound, io, k, directed) ==
  IF k > Len(io) THEN bound
  ELSE LET ev == io[k]
           dirm == {c \in DIRMCommands : c[1] = ev[2]}
           msel == {c \in MSELCommands : c[1] = ev[2]}
       IN  IF ev[1] = "write_ieee_block"
           THEN DeviceReceives(ev[2], io, k + 1, directed)
           ELSE IF ev[1] # "write" \/ Len(ev) # 2
           THEN DeviceReceives(bound, io, k + 1, directed)
           ELSE IF ev[2] = "*RST"
           THEN DeviceReceives(Unbound, io, k + 1, directed)
           ELSE IF dirm # {}
           THEN DeviceReceives(bound, io, k + 1, (CHOOSE c \in dirm : TRUE)[2])
           ELSE IF directed \in SlotIds /\ msel # {}
           THEN DeviceReceives(
                  [bound EXCEPT ![directed] = (CHOOSE c \in msel : TRUE)[2]],
                  io, k + 1, directed)
           ELSE DeviceReceives(bound, io, k + 1, directed)

\* The bindings after a whole io trace: an instrument that is sent nothing
\* (a trace with queries only) keeps its bindings.
DeviceAfter(bound, io) ==
  IF \A k \in 1..Len(io) : io[k][1] \notin {"write", "write_ieee_block"}
  THEN bound
  ELSE DeviceReceives(bound, io, 1, "None")

Init ==
  /\ simulate \in BOOLEAN
  /\ val = [e \in Entries |-> DefaultOf(e[1])]
  /\ cache_valid = [e \in Entries |-> FALSE]
  /\ measurement_slots = [s \in SlotIds |-> None]
  /\ touched = {}
  /\ device_slots = Unbound
  /\ last = Outcome("init", "", NoIndex, None, None, "none", <<>>)

(***************************************************************************)
(* Mapping tables and reply vocabularies                                   *)
(***************************************************************************)

\* The mapping dicts, as the sequences of (key, value) their items() yield.
AcquisitionTypeMapping ==
  << <<"normal", "normal">>, <<"peak_detect", "peak">>, <<"average", "average">> >>
AcquisitionAverageCount == {2, 4, 8, 16, 32, 64, 128, 256}
VerticalCouplingMapping ==
  << <<"ac", "AC1M">>, <<"dc", "DC1M">>, <<"gnd", "GND">> >>
VerticalCouplingReverseMapping ==
  << <<"AC1M", "ac">>, <<"DC1M", "dc">>, <<"DC50", "dc">>, <<"GND", "gnd">> >>
TriggerTypeMapping == << <<"edge", "edge">>, <<"ac_line", "edge">> >>
TriggerCouplingMapping ==
  << <<"ac", "ac">>, <<"dc", "dc">>, <<"hf_reject", "hf">>, <<"lf_reject", "lf">> >>
SampleModeMapping == << <<"real_time", "off">>, <<"equivalent_time", "on">> >>
SlopeMapping == << <<"positive", "pos">>, <<"negative", "neg">> >>
TimebaseModeMapping ==
  << <<"main", "yt">>, <<"xy", "xy">>, <<"xytrg", "xytrg">>, <<"roll", "yt">> >>

\* key in mapping, mapping[key], and [k for k, v in mapping.items() if v == value]
Keys(mapping) == {mapping[k][1] : k \in 1..Len(mapping)}
Lookup(mapping, key) ==
  LET k == CHOOSE j \in 1..Len(mapping) : mapping[j][1] = key IN mapping[k][2]
KeysOf(mapping, value) ==
  LET Test(item) == item[2] = value
      hits == SelectSeq(mapping, Test)
  IN  [k \in 1..Len(hits) |-> hits[k][1]]

\* The replies the instrument gives to each query here.  "??" stands for a
\* reply that the driver's tables do not cover.
OnOffReplies == {"ON", "OFF"}
XYDSReplies == {"YT", "XY", "??"}
ACQReplies == {"NORMAL", "PEAK", "??"}
EQUReplies == {"ON", "OFF", "??"}
CPLReplies == {"AC1M", "DC1M", "DC50", "??"}
TCPLReplies == {"AC", "HF", "??"}
TSLPReplies == {"POS", "NEG", "??"}
TSRCReplies == {"EXT10", "CH2", "LINE"}
TTYPReplies == {"EDGE", "PULSE"}
TRMDReplies == {"AUTO", "SINGLE"}
BWLReplies == {"FULL", "20M", "100M"}
PROBEReplies == {"AUTO,10", "MANUAL,1"}
AVGCNTReplies == {"4", "16"}
MLENReplies == {"500K", "10k", "1M"}
TimeReplies == {"0.00000E+00", "5.00000E-07"}
TDIVReplies == {"1.00000E-04", "2.00000E-08"}
VoltReplies == {"0.00000E+00", "1.50000E+00"}
VDIVReplies == {"1.00000E+00", "2.00000E-01"}

\* str.lower() on the replies above.
lower(s) ==
  CASE s = "ON" -> "on"         [] s = "OFF" -> "off"
    [] s = "YT" -> "yt"         [] s = "XY" -> "xy"
    [] s = "NORMAL" -> "normal" [] s = "PEAK" -> "peak"
    [] s = "AC" -> "ac"         [] s = "HF" -> "hf"
    [] s = "POS" -> "pos"       [] s = "NEG" -> "neg"
    [] s = "EXT10" -> "ext10"   [] s = "CH2" -> "ch2"
    [] s = "LINE" -> "line"     [] s = "EDGE" -> "edge"
    [] s = "PULSE" -> "pulse"   [] s = "AUTO" -> "auto"
    [] s = "SINGLE" -> "single" [] s = "MANUAL" -> "manual"
    [] s = "FULL" -> "full"     [] s = "20M" -> "20m"
    [] s = "100M" -> "100m"
    [] OTHER -> s

\* reply.split(',') of the PROBE? replies.
SplitProbe(reply) ==
  CASE reply = "AUTO,10" -> <<"AUTO", "10">>
    [] reply = "MANUAL,1" -> <<"MANUAL", "1">>

\* int() and float() of the numeric literals above: times in nanoseconds,
\* voltages in millivolts, counts as they are.
int(s) ==
  CASE s = "1" -> 1 [] s = "4" -> 4 [] s = "10" -> 10 [] s = "16" -> 16
    [] s = "0" -> 0 [] s = "12" -> 12 [] s = "33" -> 33 [] s = "48" -> 48
    [] s = "60" -> 60
float(s) ==
  CASE s = "0.00000E+00" -> 0
    [] s = "5.00000E-07" -> 500
    [] s = "1.00000E-04" -> 100000
    [] s = "2.00000E-08" -> 20
    [] s = "1.50000E+00" -> 1500
    [] s = "1.00000E+00" -> 1000
    [] s = "2.00000E-01" -> 200

\* The characters of the literals that carry an engineering suffix.
Chars(s) ==
  CASE s = "500K" -> <<"5", "0", "0", "K">>
    [] s = "10k" -> <<"1", "0", "k">>
    [] s = "1M" -> <<"1", "M">>

DigitValue(c) ==
  CASE c = "0" -> 0 [] c = "1" -> 1 [] c = "2" -> 2 [] c = "3" -> 3 [] c = "4" -> 4
    [] c = "5" -> 5 [] c = "6" -> 6 [] c = "7" -> 7 [] c = "8" -> 8 [] c = "9" -> 9

\* string.rstrip(set): the string without its trailing characters of the set.
RECURSIVE rstrip(_, _)
rstrip(chars, set) ==
  IF chars # <<>> /\ chars[Len(chars)] \in set
  THEN rstrip(SubSeq(chars, 1, Len(chars) - 1), set)
  ELSE chars

\* float() of an unsigned decimal without exponent, as mantissa * 10^exp.
RECURSIVE Decimal(_, _, _, _)
Decimal(chars, k, mant, exp) ==
  IF k > Len(chars) THEN [mant |-> mant, exp |-> exp]
  ELSE IF chars[k] = "." THEN Decimal(chars, k + 1, mant, 0)
  ELSE Decimal(chars, k + 1, 10 * mant + DigitValue(chars[k]),
               IF exp = 1 THEN 1 ELSE exp - 1)
DecimalOf(chars) ==
  LET d == Decimal(chars, 1, 0, 1)
  IN  [mant |-> d.mant, exp |-> IF d.exp = 1 THEN 0 ELSE d.exp]

EndsWith(chars, set) == chars # <<>> /\ chars[Len(chars)] \in set

\* _suffixed_string_to_float, as mantissa * 10^exp.
suffixed_string_to_float(chars) ==
  LET Scaled(set, e) ==
        LET d == DecimalOf(rstrip(chars, set))
        IN  [mant |-> d.mant, exp |-> d.exp + e]
  IN  IF EndsWith(chars, {"n"}) THEN Scaled({"n"}, -9)
      ELSE IF EndsWith(chars, {"u"}) THEN Scaled({"u"}, -6)
      ELSE IF EndsWith(chars, {"m"}) THEN Scaled({"m"}, -3)
      ELSE IF EndsWith(chars, {"k", "K"}) THEN Scaled({"k", "K"}, 3)
      ELSE IF EndsWith(chars, {"M"}) THEN Scaled({"M"}, 6)
      ELSE DecimalOf(chars)

RECURSIVE Pow10(_)
Pow10(e) == IF e = 0 THEN 1 ELSE 10 * Pow10(e - 1)

\* int() of a float given as mantissa * 10^exp: truncation toward zero.
IntOf(f) == IF f.exp >= 0 THEN f.mant * Pow10(f.exp) ELSE f.mant \div Pow10(-f.exp)

\* _bool_to_onoff
bool_to_onoff(value) == IF value THEN "on" ELSE "off"

\* bool(value) of a tagged Python value.
bool(value) ==
  CASE value[1] = "bool" -> value[2]
    [] value[1] = "num" -> value[2] # 0
    [] value[1] = "str" -> value[2] # ""

\* round(seconds, 6) of a time in nanoseconds: to the nearest microsecond
\* (no modelled time lies halfway between two microseconds).
RoundMicro(ns) == ((ns + 500) \div 1000) * 1000

(***************************************************************************)
(* Attribute accessors                                                     *)
(***************************************************************************)

\* The device setting an attribute mirrors: the accessors that send or ask the
\* same device command work on one setting.
SettingOf(tag) ==
  CASE tag \in {"timebase_range", "timebase_scale", "acquisition_time_per_record"}
         -> "TDIV"
    [] tag \in {"channel_input_impedance", "channel_coupling"} -> "CPL"
    [] tag \in {"channel_input_frequency_max", "channel_bw_limit"} -> "BWL"
    [] tag \in {"channel_probe_attenuation", "channel_probe_attenuation_auto"}
         -> "PROBE"
    [] tag \in {"channel_range", "channel_scale"} -> "VDIV"
    [] tag \in {"trigger_source", "trigger_type"} -> "TSRC"
    [] OTHER -> tag

\* A session works on at most MaxSettings device settings.
Touch(tag, index) ==
  /\ \/ <<SettingOf(tag), index>> \in touched
     \/ Cardinality(touched) < MaxSettings
  /\ touched' = touched \cup {<<SettingOf(tag), index>>}

\* The end of an accessor call: the attribute fields and validity flags it
\* leaves, and what it returned or raised after the io it did.
Finish(op, tag, index, arg, v2, cv2, result, raised, io) ==
  /\ Touch(tag, index)
  /\ val' = v2
  /\ cache_valid' = cv2
  /\ last' = Outcome(op, tag, index, arg, result, raised, io)
  /\ UNCHANGED <<simulate, measurement_slots, device_slots>>

\* A getter that returns its field, a setter that returns None, and an
\* accessor that raises: each with the fields and flags given.
Return(tag, index, v2, cv2, io) ==
  Finish("get", tag, index, None, v2, cv2, v2[<<tag, index>>], "none", io)
Done(tag, index, arg, v2, cv2, io) ==
  Finish("set", tag, index, arg, v2, cv2, None, "none", io)
Raise(op, tag, index, arg, exception, io) ==
  Finish(op, tag, index, arg, val, cache_valid, None, exception, io)

\* Mutant: the value is stored for every channel that has the attribute.
Store_everyIndex(v, tag, index, value) ==
  [e \in DOMAIN v |-> IF e[1] = tag THEN value ELSE v[e]]

Store(v, tag, index, value) == [v EXCEPT ![<<tag, index>>] = value]

\* Mutant: the dependent entry is left as it is.
Invalidate_nothing(cv, tag, index) == cv

\* "self._set_cache_valid(False, <dependent attribute>, index)"
Invalidate(cv, tag, index) == set_cache_valid(cv, FALSE, tag, index)

\* Mutant: the written scale is cached like any other setting.
ScaleFlag_optimistic(cv, tag, index) == set_cache_valid(cv, TRUE, tag, index)

\* "self._set_cache_valid(False ...)" on the scale entry itself: the device
\* coerces the scale, so the written value is not cached.
ScaleFlag(cv, tag, index) == set_cache_valid(cv, FALSE, tag, index)

\* "not self._driver_operation_simulate and not self._get_cache_valid()"
MustQuery(tag, index) == ~simulate /\ ~get_cache_valid(cache_valid, tag, index)

\* Mutant: the commands are sent whether the driver simulates or not.
Device_always(io) == io

\* "if not self._driver_operation_simulate: self._write(...)"
Device(io) == IF simulate THEN <<>> ELSE io

get_timebase_mode(roll, xyds) ==
  LET tag == "timebase_mode"
      hits == SelectSeq(KeysOf(TimebaseModeMapping, lower(xyds)),
                        LAMBDA k : k # "roll")
  IN  IF MustQuery(tag, NoIndex)
      THEN IF lower(roll) = "on"
           THEN Return(tag, NoIndex, Store(val, tag, NoIndex, S("roll")),
                       set_cache_valid(cache_valid, TRUE, tag, NoIndex),
                       <<Ask("ROLL?", roll)>>)
           ELSE IF hits = <<>>
           THEN Raise("get", tag, NoIndex, None, "IndexError",
                      <<Ask("ROLL?", roll), Ask("XYDS?", xyds)>>)
           ELSE Return(tag, NoIndex, Store(val, tag, NoIndex, S(hits[1])),
                       set_cache_valid(cache_valid, TRUE, tag, NoIndex),
                       <<Ask("ROLL?", roll), Ask("XYDS?", xyds)>>)
      ELSE Return(tag, NoIndex, val, cache_valid, <<>>)

set_timebase_mode(value) ==
  LET tag == "timebase_mode" IN
  IF value \notin Keys(TimebaseModeMapping)
  THEN Raise("set", tag, NoIndex, S(value), "ValueNotSupportedException", <<>>)
  ELSE Done(tag, NoIndex, S(value), Store(val, tag, NoIndex, S(value)),
            set_cache_valid(cache_valid, TRUE, tag, NoIndex),
            Device(<<Write("XYDS " \o Lookup(TimebaseModeMapping, value))>>
                   \o IF value = "roll" THEN <<Write("ROLL ON")>> ELSE <<>>))

get_timebase_position(reply) ==
  LET tag == "timebase_position" IN
  IF MustQuery(tag, NoIndex)
  THEN Return(tag, NoIndex, Store(val, tag, NoIndex, N(float(reply))),
              set_cache_valid(cache_valid, TRUE, tag, NoIndex),
              <<Ask("TRDL?", reply)>>)
  ELSE Return(tag, NoIndex, val, cache_valid, <<>>)

set_timebase_position(value) ==
  LET tag == "timebase_position" IN
  Done(tag, NoIndex, N(value), Store(val, tag, NoIndex, N(value)),
       set_cache_valid(cache_valid, TRUE, tag, NoIndex),
       Device(<<WriteNum("TRDL %.5e", value)>>))

\* The body of _get_timebase_scale, which _get_timebase_range and (through
\* it) _get_acquisition_time_per_record run too: the fields, the flags and
\* the io it leaves.
TimebaseScaleRead(v, cv, reply) ==
  IF ~simulate /\ ~get_cache_valid(cv, "timebase_scale", NoIndex)
  THEN [ val |-> Store(Store(v, "timebase_scale", NoIndex, N(float(reply))),
                       "timebase_range", NoIndex,
                       N(RoundMicro(float(reply) * horizontal_divisions))),
         cache_valid |-> set_cache_valid(
                           set_cache_valid(cv, TRUE, "timebase_scale", NoIndex),
                           TRUE, "timebase_range", NoIndex),
         io |-> <<Ask("TDIV?", reply)>> ]
  ELSE [val |-> v, cache_valid |-> cv, io |-> <<>>]

\* The body of _set_timebase_scale, which _set_timebase_range runs too.
TimebaseScaleWrite(cv, value) ==
  [ cache_valid |-> Invalidate(ScaleFlag(cv, "timebase_scale", NoIndex),
                               "timebase_range", NoIndex),
    io |-> Device(<<WriteNum("TDIV %.5e", value)>>) ]

get_timebase_range(reply) ==
  LET r == TimebaseScaleRead(val, cache_valid, reply)
  IN  Return("timebase_range", NoIndex, r.val, r.cache_valid, r.io)

set_timebase_range(value) ==
  LET w == TimebaseScaleWrite(cache_valid, value \div horizontal_divisions)
  IN  Done("timebase_range", NoIndex, N(value), val, w.cache_valid, w.io)

get_timebase_scale(reply) ==
  LET r == TimebaseScaleRead(val, cache_valid, reply)
  IN  Return("timebase_scale", NoIndex, r.val, r.cache_valid, r.io)

set_timebase_scale(value) ==
  LET w == TimebaseScaleWrite(cache_valid, value)
  IN  Done("timebase_scale", NoIndex, N(value), val, w.cache_valid, w.io)

get_display_vectors(reply) ==
  LET tag == "display_vectors" IN
  IF MustQuery(tag, NoIndex)
  THEN Return(tag, NoIndex, Store(val, tag, NoIndex, B(lower(reply) = "on")),
              set_cache_valid(cache_valid, TRUE, tag, NoIndex),
              <<Ask("VECT?", reply)>>)
  ELSE Return(tag, NoIndex, val, cache_valid, <<>>)

set_display_vectors(value) ==
  LET tag == "display_vectors" IN
  Done(tag, NoIndex, value, Store(val, tag, NoIndex, value),
       set_cache_valid(cache_valid, TRUE, tag, NoIndex),
       Device(<<Write("VECT " \o bool_to_onoff(bool(value)))>>))

\* Mutant: a reply the table does not cover leaves the stored value in place
\* and the entry is marked valid.
EnumRead_keepsOld(tag, index, mapping, query, reply, mark) ==
  IF MustQuery(tag, index)
  THEN Return(tag, index,
              IF KeysOf(mapping, lower(reply)) = <<>> THEN val
              ELSE Store(val, tag, index, S(KeysOf(mapping, lower(reply))[1])),
              IF mark THEN set_cache_valid(cache_valid, TRUE, tag, index)
              ELSE cache_valid,
              <<Ask(query, reply)>>)
  ELSE Return(tag, index, val, cache_valid, <<>>)

\* The read of an enumeration: the reply is lowered and looked up in reverse.
EnumRead(tag, index, mapping, query, reply, mark) ==
  LET hits == KeysOf(mapping, lower(reply)) IN
  IF MustQuery(tag, index)
  THEN IF hits = <<>>
       THEN Raise("get", tag, index, None, "IndexError", <<Ask(query, reply)>>)
       ELSE Return(tag, index, Store(val, tag, index, S(hits[1])),
                   IF mark THEN set_cache_valid(cache_valid, TRUE, tag, index)
                   ELSE cache_valid,
                   <<Ask(query, reply)>>)
  ELSE Return(tag, index, val, cache_valid, <<>>)

\* The write of an enumeration: the key is checked, sent and cached.
EnumWrite(tag, index, mapping, command, value, more) ==
  IF value \notin Keys(mapping)
  THEN Raise("set", tag, index, S(value), "ValueNotSupportedException", <<>>)
  ELSE Done(tag, index, S(value), Store(val, tag, index, S(value)),
            set_cache_valid(cache_valid, TRUE, tag, index),
            Device(<<Write(command \o Lookup(mapping, value))>> \o more))

get_acquisition_type(reply) ==
  EnumRead("acquisition_type", NoIndex, AcquisitionTypeMapping, "ACQ?", reply, TRUE)

set_acquisition_type(value) ==
  EnumWrite("acquisition_type", NoIndex, AcquisitionTypeMapping, "ACQ ", value, <<>>)

get_acquisition_record_length(reply) ==
  LET tag == "acquisition_record_length"
      value == IntOf(suffixed_string_to_float(Chars(reply)))
  IN  IF MustQuery(tag, NoIndex)
      THEN Return(tag, NoIndex, Store(val, tag, NoIndex, N(value)),
                  set_cache_valid(cache_valid, TRUE, tag, NoIndex),
                  <<Ask("MLEN?", reply)>>)
      ELSE Return(tag, NoIndex, val, cache_valid, <<>>)

get_acquisition_time_per_record(reply) ==
  LET tag == "acquisition_time_per_record"
      r == TimebaseScaleRead(val, cache_valid, reply)
  IN  IF MustQuery(tag, NoIndex)
      THEN Return(tag, NoIndex,
                  Store(r.val, tag, NoIndex, r.val[<<"timebase_range", NoIndex>>]),
                  set_cache_valid(r.cache_valid, TRUE, tag, NoIndex), r.io)
      ELSE Return(tag, NoIndex, val, cache_valid, <<>>)

get_acquisition_number_of_averages(reply) ==
  LET tag == "acquisition_number_of_averages" IN
  IF MustQuery(tag, NoIndex)
  THEN Return(tag, NoIndex, Store(val, tag, NoIndex, N(int(reply))),
              set_cache_valid(cache_valid, TRUE, tag, NoIndex),
              <<Ask("AVGCNT?", reply)>>)
  ELSE Return(tag, NoIndex, val, cache_valid, <<>>)

set_acquisition_number_of_averages(value) ==
  LET tag == "acquisition_number_of_averages" IN
  IF value \notin AcquisitionAverageCount
  THEN Raise("set", tag, NoIndex, N(value), "OutOfRangeException", <<>>)
  ELSE Done(tag, NoIndex, N(value), Store(val, tag, NoIndex, N(value)),
            set_cache_valid(cache_valid, TRUE, tag, NoIndex),
            Device(<<WriteNum("AVGCNT %d", value)>>))

get_acquisition_sample_mode(reply) ==
  EnumRead("acquisition_sample_mode", NoIndex, SampleModeMapping, "EQU?", reply, TRUE)

set_acquisition_sample_mode(value) ==
  EnumWrite("acquisition_sample_mode", NoIndex, SampleModeMapping, "EQU ", value, <<>>)

get_channel_enabled(index, reply) ==
  LET tag == "channel_enabled" IN
  IF MustQuery(tag, index)
  THEN Return(tag, index, Store(val, tag, index, B(lower(reply) = "on")),
              set_cache_valid(cache_valid, TRUE, tag, index),
              <<Ask(channel_command_name[index] \o ":TRA?", reply)>>)
  ELSE Return(tag, index, val, cache_valid, <<>>)

set_channel_enabled(index, value) ==
  LET tag == "channel_enabled" IN
  Done(tag, index, value, Store(val, tag, index, B(bool(value))),
       set_cache_valid(cache_valid, TRUE, tag, index),
       Device(<<Write(channel_command_name[index] \o ":TRA "
                      \o bool_to_onoff(bool(value)))>>))

\* reply.count("50") > 0 on the CPL? replies.
Has50(reply) == reply = "DC50"

get_channel_input_impedance(index, reply) ==
  LET tag == "channel_input_impedance" IN
  IF MustQuery(tag, index)
  THEN Return(tag, index,
              Store(val, tag, index, IF Has50(reply) THEN N(50) ELSE N(1000000)),
              set_cache_valid(cache_valid, TRUE, tag, index),
              <<Ask(channel_command_name[index] \o ":CPL?", reply)>>)
  ELSE Return(tag, index, val, cache_valid, <<>>)

\* Mutant: the command is sent before the value is checked.
ImpedanceIo_unchecked(index, value) ==
  IF simulate THEN <<>>
  ELSE <<Write(channel_command_name[index] \o ":CPL DC"
               \o (IF value = 50 THEN "50" ELSE "1M"))>>

\* The io of _set_channel_input_impedance: nothing for a value it rejects,
\* and a command only while the cached coupling is 'dc'.
ImpedanceIo(index, value) ==
  IF ~(value = 1000000
       \/ (value = 50 /\ val[<<"channel_coupling", index>>] = S("dc")))
  THEN <<>>
  ELSE IF ~simulate /\ val[<<"channel_coupling", index>>] = S("dc")
  THEN IF value = 1000000
       THEN <<Write(channel_command_name[index] \o ":CPL DC1M")>>
       ELSE <<Write(channel_command_name[index] \o ":CPL DC50")>>
  ELSE <<>>

set_channel_input_impedance(index, value) ==
  LET tag == "channel_input_impedance" IN
  IF ~(value = 1000000
       \/ (value = 50 /\ val[<<"channel_coupling", index>>] = S("dc")))
  THEN Raise("set", tag, index, N(value), "Exception", ImpedanceIo(index, value))
  ELSE Done(tag, index, N(value), Store(val, tag, index, N(value)),
            set_cache_valid(cache_valid, TRUE, tag, index),
            ImpedanceIo(index, value))

\* What _set_channel_bw_limit keeps of its argument: a bool becomes '20m' or
\* 'full', a string is kept as given.
BwLimitStored(value) ==
  IF value[1] = "bool" THEN (IF value[2] THEN S("20m") ELSE S("full")) ELSE value

\* The body of _set_channel_bw_limit, which _set_channel_input_frequency_max
\* runs too (not simulating).
BwLimitWrite(v, cv, index, value) ==
  LET stored == BwLimitStored(value) IN
  IF lower(BwLimitStored(value)[2]) \notin {"full", "20m", "100m"}
  THEN [raised |-> "ValueNotSupportedException", val |-> v, cache_valid |-> cv,
        io |-> <<>>]
  ELSE [raised |-> "none",
        val |-> Store(v, "channel_bw_limit", index, stored),
        cache_valid |-> set_cache_valid(cv, TRUE, "channel_bw_limit", index),
        io |-> Device(<<Write(channel_command_name[index] \o ":BWL "
                              \o BwLimitStored(value)[2])>>)]

get_channel_input_frequency_max(index) ==
  Return("channel_input_frequency_max", index, val, cache_valid, <<>>)

\* value < 20e6, the value being in megahertz.
set_channel_input_frequency_max(index, value) ==
  LET tag == "channel_input_frequency_max"
      w == IF simulate THEN [val |-> val, cache_valid |-> cache_valid, io |-> <<>>]
           ELSE BwLimitWrite(val, cache_valid, index, B(value < 20))
  IN  Done(tag, index, N(value), Store(w.val, tag, index, N(value)),
           set_cache_valid(w.cache_valid, TRUE, tag, index), w.io)

get_channel_probe_attenuation(index, reply) ==
  LET tag == "channel_probe_attenuation" IN
  IF MustQuery(tag, index)
  THEN Return(tag, index, Store(val, tag, index, N(int(SplitProbe(reply)[2]))),
              set_cache_valid(cache_valid, TRUE, tag, index),
              <<Ask(channel_command_name[index] \o ":PROBE?", reply)>>)
  ELSE Return(tag, index, val, cache_valid, <<>>)

set_channel_probe_attenuation(index, value) ==
  LET tag == "channel_probe_attenuation" IN
  Done(tag, index, N(value), Store(val, tag, index, N(value)),
       set_cache_valid(Invalidate(cache_valid, "channel_probe_attenuation_auto", index),
                       TRUE, tag, index),
       Device(<<WriteNum(channel_command_name[index] \o ":PROBE manual,%d", value)>>))

get_channel_probe_attenuation_auto(index, reply) ==
  LET tag == "channel_probe_attenuation_auto" IN
  IF MustQuery(tag, index)
  THEN Return(tag, index,
              Store(val, tag, index, B(lower(SplitProbe(reply)[1]) = "auto")),
              set_cache_valid(cache_valid, TRUE, tag, index),
              <<Ask(channel_command_name[index] \o ":PROBE?", reply)>>)
  ELSE Return(tag, index, val, cache_valid, <<>>)

\* "if bool(value): value = 'auto' else: value = 'manual'"
ProbeAutoWord(value) == IF bool(value) THEN "auto" ELSE "manual"

set_channel_probe_attenuation_auto(index, value) ==
  LET tag == "channel_probe_attenuation_auto" IN
  Done(tag, index, value, Store(val, tag, index, S(ProbeAutoWord(value))),
       set_cache_valid(Invalidate(cache_valid, "channel_probe_attenuation", index),
                       TRUE, tag, index),
       Device(<<Write(channel_command_name[index] \o ":PROBE "
                      \o ProbeAutoWord(value) \o ",1")>>))

get_channel_bw_limit(index, reply) ==
  LET tag == "channel_bw_limit"
      value == IF lower(reply) = "full" THEN B(FALSE) ELSE S(lower(reply))
  IN  IF MustQuery(tag, index)
      THEN Return(tag, index, Store(val, tag, index, value),
                  set_cache_valid(cache_valid, TRUE, tag, index),
                  <<Ask(channel_command_name[index] \o ":BWL?", reply)>>)
      ELSE Return(tag, index, val, cache_valid, <<>>)

set_channel_bw_limit(index, value) ==
  LET w == BwLimitWrite(val, cache_valid, index, value) IN
  IF w.raised # "none"
  THEN Raise("set", "channel_bw_limit", index, value, w.raised, w.io)
  ELSE Done("channel_bw_limit", index, value, w.val, w.cache_valid, w.io)

get_channel_coupling(index, reply) ==
  LET tag == "channel_coupling" IN
  IF MustQuery(tag, index)
  THEN IF reply \notin Keys(VerticalCouplingReverseMapping)
       THEN Raise("get", tag, index, None, "KeyError",
                  <<Ask(channel_command_name[index] \o ":CPL?", reply)>>)
       ELSE Return(tag, index,
                   Store(val, tag, index,
                         S(Lookup(VerticalCouplingReverseMapping, reply))),
                   set_cache_valid(cache_valid, TRUE, tag, index),
                   <<Ask(channel_command_name[index] \o ":CPL?", reply)>>)
  ELSE Return(tag, index, val, cache_valid, <<>>)

set_channel_coupling(index, value) ==
  LET tag == "channel_coupling" IN
  IF value \notin Keys(VerticalCouplingMapping)
  THEN Raise("set", tag, index, S(value), "ValueNotSupportedException", <<>>)
  ELSE Done(tag, index, S(value), Store(val, tag, index, S(value)),
            set_cache_valid(Invalidate(cache_valid, "channel_input_impedance", index),
                            TRUE, tag, index),
            Device(<<Write(channel_command_name[index] \o ":CPL "
                           \o Lookup(VerticalCouplingMapping, value))>>))

get_channel_offset(index, reply) ==
  LET tag == "channel_offset" IN
  IF MustQuery(tag, index)
  THEN Return(tag, index, Store(val, tag, index, N(float(reply))),
              set_cache_valid(cache_valid, TRUE, tag, index),
              <<Ask(channel_command_name[index] \o ":OFST?", reply)>>)
  ELSE Return(tag, index, val, cache_valid, <<>>)

set_channel_offset(index, value) ==
  LET tag == "channel_offset" IN
  Done(tag, index, N(value), Store(val, tag, index, N(value)),
       set_cache_valid(cache_valid, TRUE, tag, index),
       Device(<<WriteNum(channel_command_name[index] \o ":OFST %.5e", value)>>))

\* The body of _get_channel_scale, which _get_channel_range runs too.
ChannelScaleRead(v, cv, index, reply) ==
  IF ~simulate /\ ~get_cache_valid(cv, "channel_scale", index)
  THEN [ val |-> Store(Store(v, "channel_scale", index, N(float(reply))),
                       "channel_range", index,
                       N(float(reply) * vertical_divisions)),
         cache_valid |-> set_cache_valid(
                           set_cache_valid(cv, TRUE, "channel_scale", index),
                           TRUE, "channel_range", index),
         io |-> <<Ask(channel_command_name[index] \o ":VDIV?", reply)>> ]
  ELSE [val |-> v, cache_valid |-> cv, io |-> <<>>]

\* The body of _set_channel_scale, which _set_channel_range runs too.
ChannelScaleWrite(cv, index, value) ==
  [ cache_valid |-> Invalidate(ScaleFlag(cv, "channel_scale", index),
                               "channel_range", index),
    io |-> Device(<<WriteNum(channel_command_name[index] \o ":VDIV %.5e", value)>>) ]

get_channel_range(index, reply) ==
  LET r == ChannelScaleRead(val, cache_valid, index, reply)
  IN  Return("channel_range", index, r.val, r.cache_valid, r.io)

set_channel_range(index, value) ==
  LET w == ChannelScaleWrite(cache_valid, index, value \div vertical_divisions)
  IN  Done("channel_range", index, N(value), val, w.cache_valid, w.io)

get_channel_scale(index, reply) ==
  LET r == ChannelScaleRead(val, cache_valid, index, reply)
  IN  Return("channel_scale", index, r.val, r.cache_valid, r.io)

set_channel_scale(index, value) ==
  LET w == ChannelScaleWrite(cache_valid, index, value)
  IN  Done("channel_scale", index, N(value), val, w.cache_valid, w.io)

get_trigger_coupling(reply) ==
  EnumRead("trigger_coupling", NoIndex, TriggerCouplingMapping, "TCPL?", reply, FALSE)

set_trigger_coupling(value) ==
  EnumWrite("trigger_coupling", NoIndex, TriggerCouplingMapping, "TCPL ", value, <<>>)

get_trigger_holdoff(reply) ==
  LET tag == "trigger_holdoff" IN
  IF MustQuery(tag, NoIndex)
  THEN Return(tag, NoIndex, Store(val, tag, NoIndex, N(float(reply))),
              set_cache_valid(cache_valid, TRUE, tag, NoIndex),
              <<Ask("THTM?", reply)>>)
  ELSE Return(tag, NoIndex, val, cache_valid, <<>>)

set_trigger_holdoff(value) ==
  LET tag == "trigger_holdoff" IN
  Done(tag, NoIndex, N(value), Store(val, tag, NoIndex, N(value)),
       set_cache_valid(cache_valid, TRUE, tag, NoIndex),
       Device(<<WriteNum("THTM %.5e", value)>>))

get_trigger_level(reply) ==
  LET tag == "trigger_level" IN
  IF MustQuery(tag, NoIndex)
  THEN Return(tag, NoIndex, Store(val, tag, NoIndex, N(float(reply))),
              set_cache_valid(cache_valid, TRUE, tag, NoIndex),
              <<Ask("TLVL?", reply)>>)
  ELSE Return(tag, NoIndex, val, cache_valid, <<>>)

set_trigger_level(value) ==
  LET tag == "trigger_level" IN
  Done(tag, NoIndex, N(value), Store(val, tag, NoIndex, N(value)),
       set_cache_valid(cache_valid, TRUE, tag, NoIndex),
       Device(<<WriteNum("TLVL %.5e", value)>>))

get_trigger_edge_slope(reply) ==
  EnumRead("trigger_edge_slope", NoIndex, SlopeMapping, "TSLP?", reply, TRUE)

set_trigger_edge_slope(value) ==
  EnumWrite("trigger_edge_slope", NoIndex, SlopeMapping, "TSLP ", value, <<>>)

\* reply.startswith('EXT') on the TSRC? replies.
StartsWithEXT(reply) == reply = "EXT10"

get_trigger_source(reply) ==
  LET tag == "trigger_source"
      value == IF StartsWithEXT(reply) THEN "external" ELSE lower(reply)
  IN  IF MustQuery(tag, NoIndex)
      THEN Return(tag, NoIndex, Store(val, tag, NoIndex, S(value)),
                  set_cache_valid(cache_valid, TRUE, tag, NoIndex),
                  <<Ask("TSRC?", reply)>>)
      ELSE Return(tag, NoIndex, val, cache_valid, <<>>)

set_trigger_source(value) ==
  LET tag == "trigger_source"
      name == IF lower(value) = "external" THEN "EXT10" ELSE value
  IN  IF lower(value) # "external" /\ value \notin ChannelNames
      THEN Raise("set", tag, NoIndex, S(value), "UnknownPhysicalNameException", <<>>)
      ELSE Done(tag, NoIndex, S(value), Store(val, tag, NoIndex, S(name)),
                set_cache_valid(cache_valid, TRUE, tag, NoIndex),
                Device(<<Write("TSRC " \o name)>>))

get_trigger_type(ttyp, tsrc) ==
  LET tag == "trigger_type"
      hits == KeysOf(TriggerTypeMapping, lower(ttyp))
  IN  IF MustQuery(tag, NoIndex)
      THEN IF lower(ttyp) = "edge"
           THEN Return(tag, NoIndex,
                       Store(val, tag, NoIndex,
                             IF lower(tsrc) = "line" THEN S("ac_line") ELSE S("edge")),
                       set_cache_valid(cache_valid, TRUE, tag, NoIndex),
                       <<Ask("TTYP?", ttyp), Ask("TSRC?", tsrc)>>)
           ELSE IF hits = <<>>
           THEN Raise("get", tag, NoIndex, None, "IndexError", <<Ask("TTYP?", ttyp)>>)
           ELSE Return(tag, NoIndex, Store(val, tag, NoIndex, S(hits[1])),
                       set_cache_valid(cache_valid, TRUE, tag, NoIndex),
                       <<Ask("TTYP?", ttyp)>>)
      ELSE Return(tag, NoIndex, val, cache_valid, <<>>)

set_trigger_type(value) ==
  EnumWrite("trigger_type", NoIndex, TriggerTypeMapping, "TTYP ", value,
            IF value = "ac_line" THEN <<Write("TSRC LINE")>> ELSE <<>>)

get_trigger_continuous(reply) ==
  LET tag == "trigger_continuous" IN
  IF MustQuery(tag, NoIndex)
  THEN Return(tag, NoIndex,
              Store(val, tag, NoIndex, B(lower(reply) \in {"auto", "endless"})),
              set_cache_valid(cache_valid, TRUE, tag, NoIndex),
              <<Ask("TRMD?", reply)>>)
  ELSE Return(tag, NoIndex, val, cache_valid, <<>>)

set_trigger_continuous(value) ==
  LET tag == "trigger_continuous" IN
  Done(tag, NoIndex, value, Store(val, tag, NoIndex, B(bool(value))),
       set_cache_valid(cache_valid, TRUE, tag, NoIndex),
       Device(<<Write(IF bool(value) THEN "RUN" ELSE "STOP")>>))

\* driver_operation.invalidate_all_attributes()
invalidate_all_attributes(cv) == [e \in DOMAIN cv |-> FALSE]

utility_reset ==
  /\ cache_valid' = IF simulate THEN cache_valid
                    ELSE invalidate_all_attributes(cache_valid)
  /\ last' = Outcome("reset", "", NoIndex, None, None, "none", Device(<<Write("*RST")>>))
  /\ device_slots' = DeviceAfter(device_slots, last'.io)
  /\ UNCHANGED <<simulate, val, measurement_slots, touched>>

\* _system_load_setup(data)
system_load_setup(data) ==
  /\ cache_valid' = IF simulate THEN cache_valid
                    ELSE invalidate_all_attributes(cache_valid)
  /\ last' = Outcome("load_setup", "", NoIndex, data, None, "none",
                     Device(<<Write("DTSTUP"), WriteBlock(data)>>))
  /\ device_slots' = DeviceAfter(device_slots, last'.io)
  /\ UNCHANGED <<simulate, val, measurement_slots, touched>>

measurement_initiate(wait) ==
  /\ cache_valid' = IF simulate THEN cache_valid
                    ELSE set_cache_valid(cache_valid, FALSE, "trigger_continuous", NoIndex)
  /\ last' = Outcome("initiate", "", NoIndex, B(wait), None, "none",
                     Device(<<Write(IF wait THEN "WSGL?" ELSE "WSGL")>>))
  /\ UNCHANGED <<simulate, val, measurement_slots, touched, device_slots>>

\* The values the callers write.
Bools == {B(TRUE), B(FALSE)}
EnumInputs(mapping) == Keys(mapping) \cup {"bogus"}
TimeInputs == {0, 500}
ScaleInputs == {100000, 20}
VoltInputs == {0, 1500}
VDivInputs == {1000, 200}

NextCache ==
  \/ \E roll \in OnOffReplies, xyds \in XYDSReplies : get_timebase_mode(roll, xyds)
  \/ \E value \in EnumInputs(TimebaseModeMapping) : set_timebase_mode(value)
  \/ \E reply \in TimeReplies : get_timebase_position(reply)
  \/ \E value \in TimeInputs : set_timebase_position(value)
  \/ \E reply \in TDIVReplies : get_timebase_range(reply)
  \/ \E value \in ScaleInputs : set_timebase_range(value * horizontal_divisions)
  \/ \E reply \in TDIVReplies : get_timebase_scale(reply)
  \/ \E value \in ScaleInputs : set_timebase_scale(value)
  \/ \E reply \in OnOffReplies : get_display_vectors(reply)
  \/ \E value \in Bools : set_display_vectors(value)
  \/ \E reply \in ACQReplies : get_acquisition_type(reply)
  \/ \E value \in EnumInputs(AcquisitionTypeMapping) : set_acquisition_type(value)
  \/ \E reply \in MLENReplies : get_acquisition_record_length(reply)
  \/ \E reply \in TDIVReplies : get_acquisition_time_per_record(reply)
  \/ \E reply \in AVGCNTReplies : get_acquisition_number_of_averages(reply)
  \/ \E value \in {4, 16, 3} : set_acquisition_number_of_averages(value)
  \/ \E reply \in EQUReplies : get_acquisition_sample_mode(reply)
  \/ \E value \in EnumInputs(SampleModeMapping) : set_acquisition_sample_mode(value)
  \/ \E index \in Indices, reply \in OnOffReplies : get_channel_enabled(index, reply)
  \/ \E index \in Indices, value \in Bools : set_channel_enabled(index, value)
  \/ \E index \in Indices, reply \in CPLReplies : get_channel_input_impedance(index, reply)
  \/ \E index \in Indices, value \in {50, 1000000, 75} :
        set_channel_input_impedance(index, value)
  \/ \E index \in Indices : get_channel_input_frequency_max(index)
  \/ \E index \in Indices, value \in {10, 100} :
        set_channel_input_frequency_max(index, value)
  \/ \E index \in Indices, reply \in PROBEReplies :
        get_channel_probe_attenuation(index, reply)
  \/ \E index \in Indices, value \in {1, 10} : set_channel_probe_attenuation(index, value)
  \/ \E index \in Indices, reply \in PROBEReplies :
        get_channel_probe_attenuation_auto(index, reply)
  \/ \E index \in Indices, value \in Bools :
        set_channel_probe_attenuation_auto(index, value)
  \/ \E index \in Indices, reply \in BWLReplies : get_channel_bw_limit(index, reply)
  \/ \E index \in Indices, value \in Bools \cup {S("100m"), S("50m")} :
        set_channel_bw_limit(index, value)
  \/ \E index \in Indices, reply \in CPLReplies : get_channel_coupling(index, reply)
  \/ \E index \in Indices, value \in EnumInputs(VerticalCouplingMapping) :
        set_channel_coupling(index, value)
  \/ \E index \in Indices, reply \in VoltReplies : get_channel_offset(index, reply)
  \/ \E index \in Indices, value \in VoltInputs : set_channel_offset(index, value)
  \/ \E index \in Indices, reply \in VDIVReplies : get_channel_range(index, reply)
  \/ \E index \in Indices, value \in VDivInputs :
        set_channel_range(index, value * vertical_divisions)
  \/ \E index \in Indices, reply \in VDIVReplies : get_channel_scale(index, reply)
  \/ \E index \in Indices, value \in VDivInputs : set_channel_scale(index, value)
  \/ \E reply \in TCPLReplies : get_trigger_coupling(reply)
  \/ \E value \in EnumInputs(TriggerCouplingMapping) : set_trigger_coupling(value)
  \/ \E reply \in TimeReplies : get_trigger_holdoff(reply)
  \/ \E value \in TimeInputs : set_trigger_holdoff(value)
  \/ \E reply \in VoltReplies : get_trigger_level(reply)
  \/ \E value \in VoltInputs : set_trigger_level(value)
  \/ \E reply \in TSLPReplies : get_trigger_edge_slope(reply)
  \/ \E value \in EnumInputs(SlopeMapping) : set_trigger_edge_slope(value)
  \/ \E reply \in TSRCReplies : get_trigger_source(reply)
  \/ \E value \in {"external", "CH1", "CH9"} : set_trigger_source(value)
  \/ \E ttyp \in TTYPReplies, tsrc \in TSRCReplies : get_trigger_type(ttyp, tsrc)
  \/ \E value \in EnumInputs(TriggerTypeMapping) : set_trigger_type(value)
  \/ \E reply \in TRMDReplies : get_trigger_continuous(reply)
  \/ \E value \in Bools : set_trigger_continuous(value)
  \/ utility_reset
  \/ \E wait \in BOOLEAN : measurement_initiate(wait)

SpecCache == Init /\ [][NextCache]_vars

(***************************************************************************)
(* Measurement slots                                                       *)
(***************************************************************************)

\* The replies to MSR<slot>? the instrument gives here, their first
\* comma-separated field, and float() of that field.  9.91e37 is outside the
\* model's integers and is kept by its literal.
MSRReplies == {"1.000E+03,OK", "9.91E+37,NG"}
MoreMSRReplies == {"2.500E+02,OK", "9.90E+37,OK"}
MSRFirstField ==
  [r \in MSRReplies \cup MoreMSRReplies |->
     CASE r = "1.000E+03,OK" -> "1.000E+03"
       [] r = "2.500E+02,OK" -> "2.500E+02"
       [] r = "9.90E+37,OK" -> "9.90E+37"
       [] r = "9.91E+37,NG" -> "9.91E+37"]
Sentinel == <<"float", "9.91e37">>
MSRFloat(field) ==
  CASE field = "1.000E+03" -> <<"num", 1000>>
    [] field = "2.500E+02" -> <<"num", 250>>
    [] field = "9.90E+37" -> <<"float", "9.9e37">>
    [] field = "9.91E+37" -> Sentinel

\* The scan loop over the slots from position k on, with selected_slot = sel
\* ("None" while nothing is selected): the slot to use and whether it has to
\* be configured.  A dict is iterated in insertion order: A, B, C, D.
RECURSIVE ScanSlots(_, _, _, _)
ScanSlots(slots, wanted, k, sel) ==
  IF k > Len(SlotOrder)
  THEN [selected_slot |-> sel, must_configure |-> TRUE]
  ELSE LET slot == SlotOrder[k]
           value == slots[slot]
       IN  IF value = wanted
           THEN [selected_slot |-> slot, must_configure |-> FALSE]
           ELSE IF value = None
           THEN ScanSlots(slots, wanted, k + 1, slot)
           ELSE IF sel = "None"
           THEN ScanSlots(slots, wanted, k + 1, slot)
           ELSE ScanSlots(slots, wanted, k + 1, sel)

\* Mutant: a matching slot is selected but configured again.
SelectSlot_reconfigure(slots, wanted) ==
  [ScanSlots(slots, wanted, 1, "None") EXCEPT !.must_configure = TRUE]

\* Mutant: an empty slot is kept once one is selected (the first empty wins).
RECURSIVE ScanSlots_firstEmpty(_, _, _, _)
ScanSlots_firstEmpty(slots, wanted, k, sel) ==
  IF k > Len(SlotOrder)
  THEN [selected_slot |-> sel, must_configure |-> TRUE]
  ELSE LET slot == SlotOrder[k]
           value == slots[slot]
       IN  IF value = wanted
           THEN [selected_slot |-> slot, must_configure |-> FALSE]
           ELSE IF value = None /\ (sel = "None" \/ slots[sel] # None)
           THEN ScanSlots_firstEmpty(slots, wanted, k + 1, slot)
           ELSE IF sel = "None"
           THEN ScanSlots_firstEmpty(slots, wanted, k + 1, slot)
           ELSE ScanSlots_firstEmpty(slots, wanted, k + 1, sel)
SelectSlot_firstEmpty(slots, wanted) == ScanSlots_firstEmpty(slots, wanted, 1, "None")

\* Mutant: an assigned slot replaces an assigned slot selected earlier (the
\* last assigned slot is evicted).
RECURSIVE ScanSlots_evictLast(_, _, _, _)
ScanSlots_evictLast(slots, wanted, k, sel) ==
  IF k > Len(SlotOrder)
  THEN [selected_slot |-> sel, must_configure |-> TRUE]
  ELSE LET slot == SlotOrder[k]
           value == slots[slot]
       IN  IF value = wanted
           THEN [selected_slot |-> slot, must_configure |-> FALSE]
           ELSE IF value = None
           THEN ScanSlots_evictLast(slots, wanted, k + 1, slot)
           ELSE IF sel = "None" \/ slots[sel] # None
           THEN ScanSlots_evictLast(slots, wanted, k + 1, slot)
           ELSE ScanSlots_evictLast(slots, wanted, k + 1, sel)
SelectSlot_evictLast(slots, wanted) == ScanSlots_evictLast(slots, wanted, 1, "None")

\* Mutant: every slot that does not match replaces the selection (the slot
\* seen last is used).
RECURSIVE ScanSlots_lastSeen(_, _, _, _)
ScanSlots_lastSeen(slots, wanted, k, sel) ==
  IF k > Len(SlotOrder)
  THEN [selected_slot |-> sel, must_configure |-> TRUE]
  ELSE IF slots[SlotOrder[k]] = wanted
  THEN [selected_slot |-> SlotOrder[k], must_configure |-> FALSE]
  ELSE ScanSlots_lastSeen(slots, wanted, k + 1, SlotOrder[k])
SelectSlot_lastSeen(slots, wanted) == ScanSlots_lastSeen(slots, wanted, 1, "None")

\* Mutant: a matching slot is used only while nothing else is selected.
RECURSIVE ScanSlots_matchUnselected(_, _, _, _)
ScanSlots_matchUnselected(slots, wanted, k, sel) ==
  IF k > Len(SlotOrder)
  THEN [selected_slot |-> sel, must_configure |-> TRUE]
  ELSE LET slot == SlotOrder[k]
           value == slots[slot]
       IN  IF value = wanted /\ sel = "None"
           THEN [selected_slot |-> slot, must_configure |-> FALSE]
           ELSE IF value = None
           THEN ScanSlots_matchUnselected(slots, wanted, k + 1, slot)
           ELSE IF sel = "None"
           THEN ScanSlots_matchUnselected(slots, wanted, k + 1, slot)
           ELSE ScanSlots_matchUnselected(slots, wanted, k + 1, sel)
SelectSlot_matchUnselected(slots, wanted) ==
  ScanSlots_matchUnselected(slots, wanted, 1, "None")

SelectSlot(slots, wanted) == ScanSlots(slots, wanted, 1, "None")

\* Mutant: the table is rebuilt around the new assignment.
AssignSlot_rebuild(slots, slot, wanted) ==
  [s \in DOMAIN slots |-> IF s = slot THEN wanted ELSE None]

AssignSlot(slots, slot, wanted) == [slots EXCEPT ![slot] = wanted]

\* Mutant: the settle wait comes before the bind command.
ConfigureIo_waitFirst(slot, wanted) ==
  << Write("MDSP ON"), Write("MINMAX OFF"), Write("DIRM " \o slot),
     Sleep("0.5"), Write("MSEL " \o wanted[1] \o ", " \o wanted[2]) >>

\* Mutant: the bind command names the slot instead of the channel.
ConfigureIo_bindSlot(slot, wanted) ==
  << Write("MDSP ON"), Write("MINMAX OFF"), Write("DIRM " \o slot),
     Write("MSEL " \o slot \o ", " \o wanted[2]), Sleep("0.5") >>

ConfigureIo(slot, wanted) ==
  << Write("MDSP ON"), Write("MINMAX OFF"), Write("DIRM " \o slot),
     Write("MSEL " \o wanted[1] \o ", " \o wanted[2]), Sleep("0.5") >>

\* Mutant: the value read is returned as it is.
MeasurementResult_raw(reply) == MSRFloat(MSRFirstField[reply])

MeasurementResult(reply) ==
  LET value == MSRFloat(MSRFirstField[reply])
  IN  IF value = Sentinel THEN NaN ELSE value

\* Mutant: the function is looked up only once the driver talks to the device.
FetchPath_simulateFirst(measurement_function) ==
  IF simulate THEN "simulate"
  ELSE IF measurement_function \notin DOMAIN MeasurementFunctionMapping
  THEN "raise" ELSE "device"

\* Which way a measurement fetch goes: the function is checked first, then
\* the simulate flag.
FetchPath(measurement_function) ==
  IF measurement_function \notin DOMAIN MeasurementFunctionMapping THEN "raise"
  ELSE IF simulate THEN "simulate" ELSE "device"

measurement_fetch_waveform_measurement(index, measurement_function, reply) ==
  /\ LET path == FetchPath(measurement_function)
         op == Outcome("fetch_waveform_measurement", "", index,
                       S(measurement_function), None, "none", <<>>)
     IN  CASE path = "raise" ->
                /\ last' = [op EXCEPT !.raised = "ValueNotSupportedException"]
                /\ UNCHANGED measurement_slots
           [] path = "simulate" ->
                /\ last' = [op EXCEPT !.result = N(0)]
                /\ UNCHANGED measurement_slots
           [] path = "device" ->
                LET wanted == <<channel_name[index],
                                MeasurementFunctionMapping[measurement_function]>>
                    sel == SelectSlot(measurement_slots, wanted)
                    slot == sel.selected_slot
                    query == Ask("MSR" \o slot \o "?", reply)
                IN  IF sel.must_configure
                    THEN /\ measurement_slots' =
                              AssignSlot(measurement_slots, slot, wanted)
                         /\ last' = [op EXCEPT
                                       !.result = MeasurementResult(reply),
                                       !.io = ConfigureIo(slot, wanted) \o <<query>>,
                                       !.old = measurement_slots[slot]]
                    ELSE /\ UNCHANGED measurement_slots
                         /\ last' = [op EXCEPT
                                       !.result = MeasurementResult(reply),
                                       !.io = <<query>>]
  /\ device_slots' = DeviceAfter(device_slots, last'.io)
  /\ Touch("measurement_slots", NoIndex)
  /\ UNCHANGED <<simulate, val, cache_valid>>

\* The same fetch when the transport raises in the write at position failing
\* of the configuration (1: MDSP ON, 2: MINMAX OFF, 3: DIRM, 4: MSEL).  The
\* writes before it were sent; the table is assigned between the second write
\* and the third.
measurement_fetch_waveform_measurement_write_raises(index, measurement_function, failing) ==
  /\ FetchPath(measurement_function) = "device"
  /\ LET wanted == <<channel_name[index],
                     MeasurementFunctionMapping[measurement_function]>>
         sel == SelectSlot(measurement_slots, wanted)
         slot == sel.selected_slot
     IN  /\ sel.must_configure
         /\ measurement_slots' =
              IF failing > 2 THEN AssignSlot(measurement_slots, slot, wanted)
              ELSE measurement_slots
         /\ last' = [Outcome("fetch_waveform_measurement", "", index,
                             S(measurement_function), None, "IOError",
                             SubSeq(ConfigureIo(slot, wanted), 1, failing - 1))
                       EXCEPT !.old = measurement_slots[slot]]
  /\ device_slots' = DeviceAfter(device_slots, last'.io)
  /\ Touch("measurement_slots", NoIndex)
  /\ UNCHANGED <<simulate, val, cache_valid>>

NextSlots ==
  \E index \in Indices, f \in MeasFunctions, reply \in MSRReplies :
     measurement_fetch_waveform_measurement(index, f, reply)

SpecSlots == Init /\ [][NextSlots]_vars

\* The measurements of the first channel, with more of the replies the
\* instrument can give.
NextResults ==
  \E f \in MeasFunctions, reply \in MSRReplies \cup MoreMSRReplies :
     measurement_fetch_waveform_measurement(0, f, reply)

SpecResults == Init /\ [][NextResults]_vars

\* Measurement fetches, resets and setup loads.
NextDevice ==
  \/ \E index \in Indices, f \in MeasFunctions, reply \in MSRReplies :
       measurement_fetch_waveform_measurement(index, f, reply)
  \/ utility_reset
  \/ \E data \in Setups : system_load_setup(data)

SpecDevice == Init /\ [][NextDevice]_vars

\* The measurements of the first channel over a transport whose writes can
\* fail.
NextTransport ==
  \/ \E f \in MeasFunctions, reply \in MSRReplies :
       measurement_fetch_waveform_measurement(0, f, reply)
  \/ \E f \in MeasFunctions, failing \in 1..4 :
       measurement_fetch_waveform_measurement_write_raises(0, f, failing)

SpecTransport == Init /\ [][NextTransport]_vars

(***************************************************************************)
(* Waveform transfer                                                       *)
(***************************************************************************)

\* One field of the DTINF? reply after split(',') and split('='): the name and
\* the characters of the value.
Field(name, value) == <<name, value>>
Filler == Field("X", <<"0">>)

\* A DTINF? reply as the instrument lays it out: two leading fields, four
\* fields per channel (the vertical increment and origin third and fourth),
\* then the trailing fields with the time per division third, the trigger
\* delay fourth and the point count sixth.
Preamble(vertical, tdiv, delay, points) ==
  <<Filler, Filler>>
  \o vertical[1] \o vertical[2] \o vertical[3] \o vertical[4]
  \o << Filler, Filler, Field("TDIV", tdiv), Field("DELAY", delay), Filler,
        Field("POINTS", points) >>
Vertical(increment, origin) ==
  <<Filler, Filler, Field("VDIV", increment), Field("OFFSET", origin)>>

DTINFReplies ==
  { Preamble(<< Vertical(<<" ", "2", "0", "0", "u", "V">>, <<" ", "1", "0", "m", "V">>),
                Vertical(<<" ", "2", "m", "V">>, <<" ", "1", "0", "0", "m", "V">>),
                Vertical(<<" ", "5", "m", "V">>, <<" ", "0", "V">>),
                Vertical(<<" ", "1", "V">>, <<" ", "2", "V">>) >>,
             <<" ", "1", "u", "s">>, <<" ", "5", "0", "0", "n", "s">>, <<" ", "2">>),
    Preamble(<< Vertical(<<"1", "0", "m", "V">>, <<"0", ".", "5", "V">>),
                Vertical(<<"2", "0", "m", "V">>, <<"1", "V">>),
                Vertical(<<" ", "5", "m", "V">>, <<" ", "0", "V">>),
                Vertical(<<" ", "1", "V">>, <<" ", "2", "V">>) >>,
             <<"2", "0", "n", "s">>, <<"0", "s">>, <<"1">>) }

\* The raw blocks read after DTWAVE?, as bytes.
RawBlocks == { <<0, 0, 1, 2>>, <<255, 255, 0, 3, 9, 9>>, <<0, 7>> }

\* string.lstrip(): the string without its leading blanks.
RECURSIVE lstrip(_)
lstrip(chars) ==
  IF chars # <<>> /\ chars[1] = " " THEN lstrip(Tail(chars)) ELSE chars

\* A float given as mantissa * 10^exp, as a multiple of 10^(-digits): the
\* waveform's times are kept in nanoseconds and its voltages in microvolts.
InUnits(f, digits) ==
  IF f.exp + digits >= 0 THEN f.mant * Pow10(f.exp + digits)
  ELSE f.mant \div Pow10(0 - (f.exp + digits))
Nanoseconds(f) == InUnits(f, 9)
Microvolts(f) == InUnits(f, 6)

\* "pre[k].split('=')[1].lstrip()" for the 0-based position k.
PreValue(pre, k) == lstrip(pre[k + 1][2])

\* struct.unpack(">H", raw_data[i*2:i*2+2])[0] for the 0-based sample i.
\* Mutant: the low byte comes first.
Unpack_littleEndian(raw_data, i) == raw_data[2 * i + 1] + 256 * raw_data[2 * i + 2]
Unpack(raw_data, i) == 256 * raw_data[2 * i + 1] + raw_data[2 * i + 2]

\* The preamble values of a fetch on channel index, before the probe
\* attenuation is applied.
Scaling(pre, index) ==
  LET trailing == 2 + 4 * channel_count
      tdiv == Nanoseconds(suffixed_string_to_float(
                            rstrip(PreValue(pre, trailing + 2), {"s"})))
      trigdelay == Nanoseconds(suffixed_string_to_float(
                                 rstrip(PreValue(pre, trailing + 3), {"s"})))
  IN  [ points |-> DecimalOf(PreValue(pre, trailing + 5)).mant,
        xincrement |-> tdiv,
        xorigin |-> 0 - ((tdiv * horizontal_divisions) \div 2 + trigdelay),
        yincrement |-> Microvolts(suffixed_string_to_float(
                         rstrip(PreValue(pre, 2 + 4 * index + 2), {"V"}))),
        yorigin |-> Microvolts(suffixed_string_to_float(
                      rstrip(PreValue(pre, 2 + 4 * index + 3), {"V"}))) ]

\* The loop over range(points): the list of (x, y) pairs.  The modelled
\* increments and origins are multiples of the modelled attenuations.
WaveformData(sc, attenuation, raw_data) ==
  [ k \in 1..sc.points |->
      << (k - 1) * sc.xincrement + sc.xorigin,
         Unpack(raw_data, k - 1) * (sc.yincrement \div attenuation)
           + (sc.yorigin \div attenuation) >> ]

\* _get_channel_probe_attenuation(index) called from inside another
\* operation: the value, the cache after the call and the io of the call.
\* Mutant: the attenuation is asked for at every call and its entry is never
\* marked valid.
ProbeAttenuation_uncached(v, cv, index, reply) ==
  IF simulate
  THEN [ value |-> v[<<"channel_probe_attenuation", index>>][2], val |-> v,
         cache_valid |-> cv, io |-> <<>> ]
  ELSE [ value |-> int(SplitProbe(reply)[2]),
         val |-> Store(v, "channel_probe_attenuation", index,
                       N(int(SplitProbe(reply)[2]))),
         cache_valid |-> cv,
         io |-> <<Ask(channel_command_name[index] \o ":PROBE?", reply)>> ]

ProbeAttenuation(v, cv, index, reply) ==
  LET tag == "channel_probe_attenuation" IN
  IF ~simulate /\ ~get_cache_valid(cv, tag, index)
  THEN [ value |-> int(SplitProbe(reply)[2]),
         val |-> Store(v, tag, index, N(int(SplitProbe(reply)[2]))),
         cache_valid |-> set_cache_valid(cv, TRUE, tag, index),
         io |-> <<Ask(channel_command_name[index] \o ":PROBE?", reply)>> ]
  ELSE [ value |-> v[<<tag, index>>][2], val |-> v, cache_valid |-> cv,
         io |-> <<>> ]

ReadBlock(raw_data) == <<"read_ieee_block", raw_data>>
List(items) == <<"list", items>>

\* Mutant: the preamble is asked for before the source channel is selected.
TransferSetup_preambleFirst(index, pre) ==
  << Write("DTFORM WORD"), Write("DTBORD H/L"), Write("DTSTART 0"),
     Write("DTPOINTS 500K"), Ask("DTINF?", pre),
     Write("WAVESRC " \o channel_name[index]) >>

\* The writes that set the transfer up, and the preamble query.
TransferSetup(index, pre) ==
  << Write("DTFORM WORD"), Write("DTBORD H/L"), Write("DTSTART 0"),
     Write("DTPOINTS 500K"), Write("WAVESRC " \o channel_name[index]),
     Ask("DTINF?", pre) >>

measurement_fetch_waveform(index, pre, raw_data, probe) ==
  LET op == Outcome("fetch_waveform", "", index, None, None, "none", <<>>)
      a1 == ProbeAttenuation(val, cache_valid, index, probe)
      a2 == ProbeAttenuation(a1.val, a1.cache_valid, index, probe)
      sc == Scaling(pre, index)
      io == TransferSetup(index, pre) \o a1.io \o a2.io
              \o <<Write("DTWAVE?"), ReadBlock(raw_data)>>
  IN  /\ Touch("channel_probe_attenuation", index)
      /\ IF simulate
         THEN /\ last' = [op EXCEPT !.result = List(<<>>)]
              /\ UNCHANGED <<val, cache_valid>>
         ELSE /\ val' = a2.val
              /\ cache_valid' = a2.cache_valid
              /\ last' =
                   IF Len(raw_data) < 2 * sc.points
                   THEN [op EXCEPT !.raised = "struct.error", !.io = io]
                   ELSE [op EXCEPT
                           !.result = List(WaveformData(sc, a2.value, raw_data)),
                           !.io = io]
      /\ UNCHANGED <<simulate, measurement_slots, device_slots>>

NextWaveform ==
  \/ \E index \in Indices, pre \in DTINFReplies, raw_data \in RawBlocks,
        probe \in PROBEReplies :
       measurement_fetch_waveform(index, pre, raw_data, probe)
  \/ \E index \in Indices, reply \in PROBEReplies :
       get_channel_probe_attenuation(index, reply)
  \/ \E index \in Indices, value \in {1, 10} :
       set_channel_probe_attenuation(index, value)
  \/ \E index \in Indices, value \in Bools :
       set_channel_probe_attenuation_auto(index, value)

SpecWaveform == Init /\ [][NextWaveform]_vars

(***************************************************************************)
(* Utility operations                                                      *)
(***************************************************************************)

\* A dict is iterated in insertion order: 4, 8, 16, 32.
ESRBitErrorMapping ==
  << <<4, "Query error">>, <<8, "Device-specific error">>,
     <<16, "Execution error">>, <<32, "Command error">> >>

\* The replies to *ESR? and to the self test the instrument gives here.
ESRReplies == {"0", "1", "4", "12", "33", "48", "60"}
TSTReplies == {"0", "1"}

\* "error_code & mask" for a mask of one bit.
BitAnd(error_code, mask) == IF (error_code \div mask) % 2 = 1 THEN mask ELSE 0

\* The loop over ESRBitErrorMapping from position k on.
RECURSIVE JoinErrors(_, _, _)
JoinErrors(error_code, k, error_message) ==
  IF k > Len(ESRBitErrorMapping) THEN error_message
  ELSE LET mask == ESRBitErrorMapping[k][1]
           message == ESRBitErrorMapping[k][2]
       IN  IF BitAnd(error_code, mask) # 0
           THEN JoinErrors(error_code, k + 1,
                           (IF error_message # "" THEN error_message \o " + "
                            ELSE "") \o message)
           ELSE JoinErrors(error_code, k + 1, error_message)

\* Mutant: only the lowest set bit is reported.
ErrorMessage_lowestBit(error_code) ==
  LET set == {k \in 1..Len(ESRBitErrorMapping) :
                BitAnd(error_code, ESRBitErrorMapping[k][1]) # 0}
  IN  IF set = {} THEN "No error"
      ELSE ESRBitErrorMapping[CHOOSE k \in set : \A j \in set : k <= j][2]

\* The message for a status value, "No error" if the loop left it empty.
ErrorMessage(error_code) ==
  LET error_message == JoinErrors(error_code, 1, "")
  IN  IF error_message = "" THEN "No error" ELSE error_message

ReadLine(reply) == <<"read", reply>>
Tuple(code, message) == <<"tuple", code, message>>

utility_error_query(reply) ==
  /\ last' = IF simulate
             THEN Outcome("error_query", "", NoIndex, None,
                          Tuple(0, "No error"), "none", <<>>)
             ELSE Outcome("error_query", "", NoIndex, None,
                          Tuple(int(reply), ErrorMessage(int(reply))), "none",
                          <<Ask("*ESR?", reply)>>)
  /\ UNCHANGED <<simulate, val, cache_valid, measurement_slots, touched,
                  device_slots>>

\* Mutant: the message does not depend on the code.
SelfTestMessage_passed(code) == "Self test passed"

\* "if code != 0: message = 'Self test failed'"
SelfTestMessage(code) ==
  IF code # 0 THEN "Self test failed" ELSE "Self test passed"

utility_self_test(reply) ==
  /\ last' = IF simulate
             THEN Outcome("self_test", "", NoIndex, None,
                          Tuple(0, "Self test passed"), "none", <<>>)
             ELSE Outcome("self_test", "", NoIndex, None,
                          Tuple(int(reply), SelfTestMessage(int(reply))),
                          "none",
                          <<Write("*TST?"), Sleep("40"), ReadLine(reply)>>)
  /\ UNCHANGED <<simulate, val, cache_valid, measurement_slots, touched,
                  device_slots>>

NextUtility ==
  \/ \E reply \in ESRReplies : utility_error_query(reply)
  \/ \E reply \in TSTReplies : utility_self_test(reply)

\* The fetches of one supported and one unsupported measurement function.
NextMeasurements ==
  \E index \in Indices, f \in {"frequency", "phase"}, reply \in MSRReplies :
     measurement_fetch_waveform_measurement(index, f, reply)

\* The operations of the four groups together.
Next == NextCache \/ NextMeasurements \/ NextWaveform \/ NextUtility

Spec == Init /\ [][Next]_vars

(***************************************************************************)
(* Properties of the measurement slots                                     *)
(***************************************************************************)

Pair(index, f) == <<channel_name[index], MeasurementFunctionMapping[f]>>
Holders(slots, wanted) == {s \in SlotIds : slots[s] = wanted}
EmptySlots(slots) == {s \in SlotIds : slots[s] = None}
Position(s) == CHOOSE k \in 1..Len(SlotOrder) : SlotOrder[k] = s
FirstOf(ss) == CHOOSE s \in ss : \A t \in ss : Position(s) <= Position(t)
LastOf(ss) == CHOOSE s \in ss : \A t \in ss : Position(s) >= Position(t)
ChangedSlots == {s \in SlotIds : measurement_slots'[s] # measurement_slots[s]}

\* The step is a measurement fetch, and the pair a fetch asked for.
Fetched == last'.op = "fetch_waveform_measurement" /\ last' # last
Supported(l) == l.arg[2] \in DOMAIN MeasurementFunctionMapping
WantedOf(l) == Pair(l.index, l.arg[2])

\* The io trace of a fetch that configures slot s for the pair wanted, and of
\* one that only queries slot s.
IsConfigureOf(io, s, wanted) ==
  /\ Len(io) = 6
  /\ SubSeq(io, 1, 5) = ConfigureIo(s, wanted)
  /\ io[6][1] = "ask" /\ io[6][2] = "MSR" \o s \o "?"
IsQueryOf(io, s) ==
  /\ Len(io) = 1
  /\ io[1][1] = "ask" /\ io[1][2] = "MSR" \o s \o "?"

\* C1: a non-simulate fetch of a pair some slot already holds selects that
\* slot, issues no configuration command and no wait, leaves the slot table
\* unchanged and issues only the MSR<slot>? query of that slot.
C1_SlotReuse ==
  [][ \A s \in SlotIds :
        ( /\ ~simulate /\ Fetched /\ Supported(last')
          /\ measurement_slots[s] = WantedOf(last') )
        => /\ measurement_slots' = measurement_slots
           /\ IsQueryOf(last'.io, s) ]_vars

\* A fetch reused slot B, which is not the first of the scan, while A and C
\* hold other pairs.
C1_Witness ==
  /\ ~simulate
  /\ last.op = "fetch_waveform_measurement"
  /\ last.raised = "none"
  /\ IsQueryOf(last.io, "B")
  /\ measurement_slots["B"] = <<channel_name[last.index],
                                MeasurementFunctionMapping[last.arg[2]]>>
  /\ measurement_slots["A"] # None
  /\ measurement_slots["C"] # None

\* C2 as stated: with no slot holding the pair and some slot empty, the slot
\* configured is the first empty slot of the scan order.
C2_FirstEmptySlot ==
  [][ ( /\ ~simulate /\ Fetched /\ Supported(last')
          /\ Holders(measurement_slots, WantedOf(last')) = {}
          /\ EmptySlots(measurement_slots) # {} )
        => IsConfigureOf(last'.io, FirstOf(EmptySlots(measurement_slots)),
                         WantedOf(last')) ]_vars

\* C2 amended: with no slot holding the pair and some slot empty, the slot
\* configured is the last empty slot of the scan order A, B, C, D, and it
\* then holds the pair.
C2_LastEmptySlot ==
  [][ ( /\ ~simulate /\ Fetched /\ Supported(last')
          /\ Holders(measurement_slots, WantedOf(last')) = {}
          /\ EmptySlots(measurement_slots) # {} )
        => LET s == LastOf(EmptySlots(measurement_slots))
           IN  /\ IsConfigureOf(last'.io, s, WantedOf(last'))
               /\ measurement_slots' = [measurement_slots EXCEPT ![s] = WantedOf(last')] ]_vars

\* A fetch configured the empty slot C while B was empty too and D was not.
C2_Witness ==
  /\ ~simulate
  /\ last.op = "fetch_waveform_measurement"
  /\ Len(last.io) = 6
  /\ last.io[3] = Write("DIRM C")
  /\ last.old = None
  /\ measurement_slots["B"] = None
  /\ measurement_slots["D"] # None

\* C3 as stated: with no slot holding the pair and no slot empty, the slot
\* evicted is the last slot of the scan order.
C3_EvictsLastSlot ==
  [][ ( /\ ~simulate /\ Fetched /\ Supported(last')
          /\ Holders(measurement_slots, WantedOf(last')) = {}
          /\ EmptySlots(measurement_slots) = {} )
        => IsConfigureOf(last'.io, SlotOrder[Len(SlotOrder)], WantedOf(last')) ]_vars

\* C3 amended: with no slot holding the pair and no slot empty, the slot
\* evicted is the first slot of the scan order A, B, C, D, and it then holds
\* the pair.
C3_EvictsFirstSlot ==
  [][ ( /\ ~simulate /\ Fetched /\ Supported(last')
          /\ Holders(measurement_slots, WantedOf(last')) = {}
          /\ EmptySlots(measurement_slots) = {} )
        => /\ IsConfigureOf(last'.io, SlotOrder[1], WantedOf(last'))
           /\ measurement_slots' =
                [measurement_slots EXCEPT ![SlotOrder[1]] = WantedOf(last')] ]_vars

\* A fetch overwrote an assignment while every slot was assigned.
C3_Witness ==
  /\ ~simulate
  /\ last.op = "fetch_waveform_measurement"
  /\ Len(last.io) = 6
  /\ last.old # None
  /\ EmptySlots(measurement_slots) = {}

\* C4: the slot table always has exactly the identifiers A, B, C, D; an
\* assigned slot never becomes empty; a fetch changes at most one slot; and
\* with all four assigned a fetch of a pair no slot holds overwrites exactly
\* one assignment with that pair.
C4_BoundedPool ==
  /\ [](DOMAIN measurement_slots = {"A", "B", "C", "D"})
  /\ [][ /\ \A s \in SlotIds :
              measurement_slots[s] # None => measurement_slots'[s] # None
         /\ Cardinality(ChangedSlots) <= 1
         /\ ( /\ ~simulate /\ Fetched /\ Supported(last')
                /\ Holders(measurement_slots, WantedOf(last')) = {}
                /\ EmptySlots(measurement_slots) = {} )
              => /\ Cardinality(ChangedSlots) = 1
                 /\ \A s \in ChangedSlots : measurement_slots'[s] = WantedOf(last') ]_vars

\* The fifth distinct pair was fetched: a slot's assignment was overwritten
\* and the four slots hold four distinct pairs.
C4_Witness ==
  /\ ~simulate
  /\ last.op = "fetch_waveform_measurement"
  /\ last.old # None
  /\ Cardinality({measurement_slots[s] : s \in SlotIds}) = 4
  /\ last.old \notin {measurement_slots[s] : s \in SlotIds}
  /\ None \notin {measurement_slots[s] : s \in SlotIds}

\* C10: a fetch naming a function that is not in MeasurementFunctionMapping
\* raises ValueNotSupportedException with an empty io trace and an unchanged
\* slot table, simulating or not.
C10_UnsupportedFunction ==
  [][ (Fetched /\ ~Supported(last'))
        => /\ last'.raised = "ValueNotSupportedException"
           /\ last'.io = <<>>
           /\ measurement_slots' = measurement_slots ]_vars

\* An unsupported function was rejected while slots were assigned.
C10_Witness ==
  /\ ~simulate
  /\ last.op = "fetch_waveform_measurement"
  /\ last.arg = S("phase")
  /\ last.raised = "ValueNotSupportedException"
  /\ last.io = <<>>
  /\ EmptySlots(measurement_slots) # SlotIds

(***************************************************************************)
(* Properties of the attribute cache                                       *)
(***************************************************************************)

EntryOf(l) == <<l.tag, l.index>>
Wrote(l) == l.op = "set" /\ l.raised = "none"
Read(l) == l.op = "get" /\ l.raised = "none"
SameEntry(l, m) == l.tag = m.tag /\ l.index = m.index
Queries(io) == {k \in 1..Len(io) : io[k][1] = "ask"}

\* The attributes with a setter that caches what it wrote: all but the
\* scales and ranges (the read-only attributes have no setter).
SetterTags ==
  (GlobalTags \cup ChannelTags)
    \ {"acquisition_record_length", "acquisition_time_per_record"}
OptimisticTags ==
  SetterTags \ {"channel_scale", "channel_range", "timebase_scale", "timebase_range"}

\* C5: not simulating, a get that directly follows a successful set(x) of an
\* optimistically cached attribute returns x and does no transport io.
C5_SetThenGet ==
  [][ ( /\ ~simulate /\ Wrote(last) /\ last.tag \in OptimisticTags
        /\ last'.op = "get" /\ SameEntry(last', last) )
      => /\ last'.raised = "none"
         /\ last'.result = last.arg
         /\ last'.io = <<>> ]_vars

ScaleTags == {"channel_scale", "timebase_scale"}

\* C6: not simulating, after a successful set of a channel scale or of the
\* timebase scale the attribute's own entry is invalid; the get that follows
\* asks the device exactly once and does nothing else, and a get that follows
\* a get asks nothing.
C6_ForcedInvalidation ==
  /\ []( (~simulate /\ Wrote(last) /\ last.tag \in ScaleTags)
         => ~cache_valid[EntryOf(last)] )
  /\ [][ ( /\ ~simulate /\ Wrote(last) /\ last.tag \in ScaleTags
           /\ last'.op = "get" /\ SameEntry(last', last) )
         => /\ Len(last'.io) = 1
            /\ Queries(last'.io) = {1}
            /\ cache_valid'[EntryOf(last)] ]_vars
  /\ [][ ( /\ ~simulate /\ Read(last) /\ last.tag \in ScaleTags
           /\ last'.op = "get" /\ SameEntry(last', last) )
         => last'.io = <<>> ]_vars

\* A scale that had been fetched from the device (its field is not the
\* default any more) was written, and its entry is invalid.
C6_Witness ==
  /\ ~simulate
  /\ Wrote(last)
  /\ last.tag = "channel_scale"
  /\ val[EntryOf(last)] # DefaultOf("channel_scale")
  /\ last.arg # val[EntryOf(last)]
  /\ ~cache_valid[EntryOf(last)]

\* The cross-dependency table: the entries a write of the attribute invalidates.
Dependents(tag) ==
  CASE tag = "channel_coupling" -> {"channel_input_impedance"}
    [] tag = "channel_probe_attenuation" -> {"channel_probe_attenuation_auto"}
    [] tag = "channel_probe_attenuation_auto" -> {"channel_probe_attenuation"}
    [] tag = "channel_scale" -> {"channel_range"}
    [] tag = "timebase_scale" -> {"timebase_range"}
    [] OTHER -> {}

\* C7: after a successful write of an attribute the entries the dependency
\* table lists for it, at the same index, are invalid, and (not simulating)
\* a read of such an entry that follows the write asks the device.
C7_DependencyInvalidation ==
  /\ []( Wrote(last)
         => \A d \in Dependents(last.tag) : ~cache_valid[<<d, last.index>>] )
  /\ [][ ( /\ ~simulate /\ Wrote(last)
           /\ last'.op = "get" /\ last'.tag \in Dependents(last.tag)
           /\ last'.index = last.index )
         => Queries(last'.io) # {} ]_vars

\* The coupling of a channel was written while the channel's impedance was
\* cached as 50 Ohm, and the impedance entry is invalid.
C7_Witness ==
  /\ ~simulate
  /\ Wrote(last)
  /\ last.tag = "channel_coupling"
  /\ val[<<"channel_input_impedance", last.index>>] = N(50)
  /\ ~cache_valid[<<"channel_input_impedance", last.index>>]

\* The attributes whose getter asks the device for the attribute itself.
QueriedTags ==
  (GlobalTags \cup ChannelTags)
    \ {"channel_input_frequency_max", "acquisition_time_per_record"}

\* C8: not simulating, a read of a valid entry does no transport io; a
\* successful read of an invalid entry asks the device, stores what it
\* returns and marks the entry valid; and a read that follows a successful
\* read of the same attribute does no transport io.
C8_ReadContract ==
  /\ [][ (~simulate /\ last'.op = "get" /\ last'.tag \in QueriedTags /\ last' # last)
         => /\ cache_valid[EntryOf(last')] => last'.io = <<>>
            /\ (~cache_valid[EntryOf(last')] /\ last'.raised = "none")
               => /\ Queries(last'.io) # {}
                  /\ val'[EntryOf(last')] = last'.result
                  /\ cache_valid'[EntryOf(last')] ]_vars
  /\ [][ ( /\ ~simulate /\ Read(last) /\ last.tag \in QueriedTags
           /\ last'.op = "get" /\ SameEntry(last', last) )
         => last'.io = <<>> ]_vars

EnumMappingOf(tag) ==
  CASE tag = "timebase_mode" -> TimebaseModeMapping
    [] tag = "acquisition_type" -> AcquisitionTypeMapping
    [] tag = "acquisition_sample_mode" -> SampleModeMapping
    [] tag = "channel_coupling" -> VerticalCouplingMapping
    [] tag = "trigger_coupling" -> TriggerCouplingMapping
    [] tag = "trigger_edge_slope" -> SlopeMapping
    [] tag = "trigger_type" -> TriggerTypeMapping

\* The writes outside the legal domain, given the attribute fields v.
Illegal(v, tag, index, arg) ==
  CASE tag \in { "timebase_mode", "acquisition_type", "acquisition_sample_mode",
                 "channel_coupling", "trigger_coupling", "trigger_edge_slope",
                 "trigger_type" } -> arg[2] \notin Keys(EnumMappingOf(tag))
    [] tag = "acquisition_number_of_averages" ->
         arg[2] \notin {2, 4, 8, 16, 32, 64, 128, 256}
    [] tag = "channel_bw_limit" ->
         arg[1] = "str" /\ arg[2] \notin {"full", "20m", "100m"}
    [] tag = "channel_input_impedance" ->
         ~(arg = N(1000000) \/ (arg = N(50) /\ v[<<"channel_coupling", index>>] = S("dc")))
    [] tag = "trigger_source" ->
         arg # S("external") /\ arg[2] \notin {"CH1", "CH2", "CH3", "CH4"}
    [] OTHER -> FALSE

\* C9: a write outside the legal domain raises, does no transport io and
\* leaves every attribute field and validity flag as it was; and no write
\* raises after doing io or changing the cache.
C9_ValidationNoSideEffect ==
  [][ /\ (last'.op = "set" /\ last' # last
          /\ Illegal(val, last'.tag, last'.index, last'.arg))
         => last'.raised # "none"
      /\ (last'.op = "set" /\ last'.raised # "none")
         => /\ last'.io = <<>>
            /\ val' = val
            /\ cache_valid' = cache_valid ]_vars

\* 50 Ohm was refused on a channel whose cached coupling is 'ac', and nothing
\* was sent to the device.
C9_Witness ==
  /\ ~simulate
  /\ last.op = "set"
  /\ last.tag = "channel_input_impedance"
  /\ last.arg = N(50)
  /\ last.raised = "Exception"
  /\ val[<<"channel_coupling", last.index>>] = S("ac")
  /\ last.io = <<>>

(***************************************************************************)
(* Properties of the slot configuration protocol                           *)
(***************************************************************************)

FunctionCodes ==
  {MeasurementFunctionMapping[f] : f \in DOMAIN MeasurementFunctionMapping}

\* The step is a non-simulate fetch of a supported pair no slot holds.
FetchConfigures ==
  /\ ~simulate /\ Fetched /\ Supported(last')
  /\ Holders(measurement_slots, WantedOf(last')) = {}

\* C11: a fetch of a pair no slot holds issues exactly MDSP ON, MINMAX OFF,
\* DIRM <slot>, an MSEL command, one settle wait and then MSR<slot>? of the
\* slot named in DIRM, in this order and with nothing in between.
C11_ConfigureOrder ==
  [][ FetchConfigures =>
        LET io == last'.io
        IN  /\ Len(io) = 6
            /\ io[1] = Write("MDSP ON")
            /\ io[2] = Write("MINMAX OFF")
            /\ \E s \in SlotIds :
                  /\ io[3] = Write("DIRM " \o s)
                  /\ io[6][1] = "ask" /\ io[6][2] = "MSR" \o s \o "?"
            /\ \E c \in ChannelNames \cup SlotIds, f \in FunctionCodes :
                  io[4] = Write("MSEL " \o c \o ", " \o f)
            /\ io[5] = Sleep("0.5") ]_vars

\* A slot was configured over an earlier assignment: the trace has the four
\* commands, the wait and the query.
C11_Witness ==
  /\ ~simulate
  /\ last.op = "fetch_waveform_measurement"
  /\ Len(last.io) = 6
  /\ last.io[5] = Sleep("0.5")
  /\ last.old # None

\* C12 as stated: the MSEL command names the slot of the preceding DIRM and
\* the device code of the requested function.
C12_BindNamesSlot ==
  [][ FetchConfigures =>
        \E s \in SlotIds :
          /\ last'.io[3] = Write("DIRM " \o s)
          /\ last'.io[4] =
               Write("MSEL " \o s \o ", "
                       \o MeasurementFunctionMapping[last'.arg[2]]) ]_vars

\* C12: the MSEL command issued during slot configuration is
\* MSEL <channel>, <function>: the device name of the requested channel and
\* the device code of the requested function, i.e. the pair just stored in
\* the slot named by the preceding DIRM.
C12_BindNamesChannel ==
  [][ FetchConfigures =>
        \E s \in SlotIds :
          /\ last'.io[3] = Write("DIRM " \o s)
          /\ measurement_slots'[s] = WantedOf(last')
          /\ last'.io[4] =
               Write("MSEL " \o channel_name[last'.index] \o ", "
                       \o MeasurementFunctionMapping[last'.arg[2]]) ]_vars

\* The second channel's period was bound to slot D on a fresh table.
C12_Witness ==
  /\ ~simulate
  /\ last.op = "fetch_waveform_measurement"
  /\ last.index = 1 /\ last.arg = S("period")
  /\ Len(last.io) = 6
  /\ last.io[3] = Write("DIRM D")
  /\ last.io[4] = Write("MSEL CH2, period")

(***************************************************************************)
(* Properties of simulate mode                                             *)
(***************************************************************************)

\* C13: in simulate mode no operation does any transport call, and a
\* measurement fetch of a supported function returns 0 and leaves the slot
\* table as it was.
C13_SimulateNoIo ==
  [][ simulate =>
        /\ last'.io = <<>>
        /\ (Fetched /\ Supported(last'))
             => /\ last'.result = N(0)
                /\ last'.raised = "none"
                /\ measurement_slots' = measurement_slots ]_vars

\* A simulating driver fetched a supported measurement.
C13_Witness ==
  /\ simulate
  /\ last.op = "fetch_waveform_measurement"
  /\ last.arg[2] \in DOMAIN MeasurementFunctionMapping
  /\ last.result = N(0)
  /\ last.io = <<>>

(***************************************************************************)
(* Invariants of the attribute cache                                       *)
(***************************************************************************)

Valid(tag, index) == get_cache_valid(cache_valid, tag, index)
Value(tag, index) == val[<<tag, index>>]

\* C14: whenever the timebase scale entry and the timebase range entry are
\* both valid, the range is the scale times the number of horizontal
\* divisions.
C14_TimebaseInvariant ==
  (Valid("timebase_scale", NoIndex) /\ Valid("timebase_range", NoIndex))
    => Value("timebase_range", NoIndex)
         = N(Value("timebase_scale", NoIndex)[2] * horizontal_divisions)

\* C15: whenever a channel's impedance can be read as 50 without device io
\* (its entry is valid, or the driver simulates), the channel's coupling is
\* 'dc'.
C15_ImpedanceCoupling ==
  \A index \in Indices :
    ( /\ simulate \/ Valid("channel_input_impedance", index)
      /\ Value("channel_input_impedance", index) = N(50) )
    => Value("channel_coupling", index) = S("dc")

\* C16: an entry that is valid after a step either was valid before and
\* kept its value, or was set in a write that left the value written in the
\* written attribute's entry, or was filled in a step that fetched from the
\* device.
C16_ValidMeansLastValue ==
  [][ \A e \in Entries :
        cache_valid'[e] =>
          \/ cache_valid[e] /\ val'[e] = val[e]
          \/ Wrote(last') /\ (EntryOf(last') = e => val'[e] = last'.arg)
          \/ Queries(last'.io) # {} ]_vars

(***************************************************************************)
(* Consistency errors                                                      *)
(***************************************************************************)

EnumTags ==
  { "timebase_mode", "acquisition_type", "acquisition_sample_mode",
    "channel_coupling", "trigger_coupling", "trigger_edge_slope",
    "trigger_type" }

\* The query whose reply an enumeration getter looks up in its table.
EnumQueryOf(tag, index) ==
  CASE tag = "timebase_mode" -> "XYDS?"
    [] tag = "acquisition_type" -> "ACQ?"
    [] tag = "acquisition_sample_mode" -> "EQU?"
    [] tag = "channel_coupling" -> channel_command_name[index] \o ":CPL?"
    [] tag = "trigger_coupling" -> "TCPL?"
    [] tag = "trigger_edge_slope" -> "TSLP?"
    [] tag = "trigger_type" -> "TTYP?"

\* The reply matches no entry of the table the getter of tag looks it up in.
Unrecognised(tag, reply) ==
  CASE tag = "channel_coupling" -> reply \notin Keys(VerticalCouplingReverseMapping)
    [] tag = "timebase_mode" ->
         \A k \in Keys(TimebaseModeMapping) :
           k = "roll" \/ Lookup(TimebaseModeMapping, k) # lower(reply)
    [] OTHER ->
         \A k \in Keys(EnumMappingOf(tag)) :
           Lookup(EnumMappingOf(tag), k) # lower(reply)

AsksOf(io, query) == {k \in Queries(io) : io[k][2] = query}

\* C17: a read whose enumeration query is answered with a reply its table
\* does not cover raises, leaves every field and flag as it was, the entry
\* invalid, and has asked that query once.
C17_ConsistencyError ==
  [][ \A tag \in EnumTags :
        ( /\ last'.op = "get" /\ last'.tag = tag /\ last' # last
          /\ \E k \in AsksOf(last'.io, EnumQueryOf(tag, last'.index)) :
               Unrecognised(tag, last'.io[k][3]) )
        => /\ last'.raised # "none"
           /\ val' = val
           /\ cache_valid' = cache_valid
           /\ ~cache_valid'[EntryOf(last')]
           /\ Cardinality(AsksOf(last'.io, EnumQueryOf(tag, last'.index))) = 1 ]_vars

\* The trigger type was read and the device answered with a type the table
\* does not have.
C17_Witness ==
  /\ ~simulate
  /\ last.op = "get" /\ last.tag = "trigger_type"
  /\ last.io = <<Ask("TTYP?", "PULSE")>>
  /\ last.raised = "IndexError"
  /\ ~cache_valid[<<"trigger_type", NoIndex>>]

(***************************************************************************)
(* Properties of the waveform transfer                                     *)
(***************************************************************************)

FetchedWaveform == last'.op = "fetch_waveform" /\ last' # last

\* The commands of an io trace (what was written or asked), in order.
Commands(io) ==
  LET Sent(ev) == ev[1] \in {"write", "ask"}
      sent == SelectSeq(io, Sent)
  IN  [k \in 1..Len(sent) |-> sent[k][2]]

TransferCommands ==
  {"DTFORM WORD", "DTBORD H/L", "DTSTART 0", "DTPOINTS 500K", "DTINF?", "DTWAVE?"}
    \cup {"WAVESRC " \o c : c \in ChannelNames}

\* C18: a non-simulate waveform fetch sends DTFORM WORD, DTBORD H/L,
\* DTSTART 0, DTPOINTS 500K, WAVESRC <channel>, DTINF? and DTWAVE? in this
\* order, each once, and reads one binary block, after DTWAVE? and as the last
\* transport call.
C18_TransferOrder ==
  [][ (~simulate /\ FetchedWaveform) =>
        LET io == last'.io
            IsTransfer(cmd) == cmd \in TransferCommands
            blocks == {k \in 1..Len(io) : io[k][1] = "read_ieee_block"}
        IN  /\ SelectSeq(Commands(io), IsTransfer)
                 = << "DTFORM WORD", "DTBORD H/L", "DTSTART 0", "DTPOINTS 500K",
                      "WAVESRC " \o channel_name[last'.index], "DTINF?", "DTWAVE?" >>
            /\ blocks = {Len(io)}
            /\ io[Len(io) - 1] = Write("DTWAVE?") ]_vars

\* A waveform of the second channel was fetched, and the probe attenuation
\* had to be asked for on the way.
C18_Witness ==
  /\ ~simulate
  /\ last.op = "fetch_waveform" /\ last.index = 1 /\ last.raised = "none"
  /\ Len(last.io) = 9
  /\ last.io[5] = Write("WAVESRC CH2")
  /\ last.io[7][2] = "C2:PROBE?"

\* C19: a non-simulate waveform fetch whose block has at least two bytes per
\* declared point returns exactly that many pairs, the i-th (from 0) being
\* (i * x_increment + x_origin, raw_i * y_increment + y_origin) with raw_i the
\* big-endian word at byte offset 2i and the vertical increment and origin
\* divided by the probe attenuation; the first x is x_origin and a raw 0
\* gives the scaled y_origin.
C19_WaveformShape ==
  [][ (~simulate /\ FetchedWaveform) =>
        LET pre == last'.io[6][3]
            raw == last'.io[Len(last'.io)][2]
            sc == Scaling(pre, last'.index)
            attenuation == val'[<<"channel_probe_attenuation", last'.index>>][2]
            yincrement == sc.yincrement \div attenuation
            yorigin == sc.yorigin \div attenuation
            Word(i) == 256 * raw[2 * i + 1] + raw[2 * i + 2]
        IN  Len(raw) >= 2 * sc.points =>
              /\ last'.raised = "none"
              /\ last'.result[1] = "list"
              /\ Len(last'.result[2]) = sc.points
              /\ \A i \in 0..(sc.points - 1) :
                   /\ last'.result[2][i + 1][1] = i * sc.xincrement + sc.xorigin
                   /\ last'.result[2][i + 1][2] = Word(i) * yincrement + yorigin
                   /\ Word(i) = 0 => last'.result[2][i + 1][2] = yorigin
              /\ last'.result[2][1][1] = sc.xorigin ]_vars

\* Two points of the first channel at 1 us per division, 500 ns trigger delay,
\* 200 uV per step from 10 mV and a 10:1 probe: the raw words 0 and 258 give
\* (-5500 ns, 1000 uV) and (-4500 ns, 6160 uV).
C19_Witness ==
  /\ ~simulate
  /\ last.op = "fetch_waveform" /\ last.index = 0
  /\ last.io[Len(last.io)] = ReadBlock(<<0, 0, 1, 2>>)
  /\ val[<<"channel_probe_attenuation", 0>>] = N(10)
  /\ last.result = List(<< <<-5500, 1000>>, <<-4500, 6160>> >>)

(***************************************************************************)
(* Properties of the status decode                                         *)
(***************************************************************************)

\* The messages of the set bits among 4, 8, 16, 32 of a status value, in
\* bit-ascending order.
SetBitMessages(code) ==
  LET Bit(mask, message) ==
        IF (code \div mask) % 2 = 1 THEN <<message>> ELSE <<>>
  IN  Bit(4, "Query error") \o Bit(8, "Device-specific error")
        \o Bit(16, "Execution error") \o Bit(32, "Command error")

RECURSIVE JoinedBy(_, _)
JoinedBy(parts, separator) ==
  IF Len(parts) = 1 THEN parts[1]
  ELSE parts[1] \o separator \o JoinedBy(Tail(parts), separator)

\* C20: error_query returns the status value the device reported as the
\* code, with the messages of its set bits among 4, 8, 16, 32 joined by " + "
\* in bit-ascending order, and "No error" exactly when none of the four is
\* set.
C20_StatusDecode ==
  [][ (~simulate /\ last'.op = "error_query" /\ last' # last) =>
        LET code == int(last'.io[1][3])
            parts == SetBitMessages(code)
        IN  /\ last'.io = <<Ask("*ESR?", last'.io[1][3])>>
            /\ last'.result[2] = code
            /\ parts # <<>> => last'.result[3] = JoinedBy(parts, " + ")
            /\ (last'.result[3] = "No error") <=> (parts = <<>>) ]_vars

\* The device reported 12.
C20_Witness ==
  /\ ~simulate
  /\ last.op = "error_query"
  /\ last.io = <<Ask("*ESR?", "12")>>
  /\ last.result = Tuple(12, "Query error + Device-specific error")

(***************************************************************************)
(* Properties of the self test                                             *)
(***************************************************************************)

\* C21: a non-simulate self test writes *TST? once, waits once, reads once
\* and does nothing else; it returns the code read, with the message
\* "Self test passed" exactly when the code is 0 and "Self test failed"
\* otherwise.
C21_SelfTest ==
  [][ (~simulate /\ last'.op = "self_test" /\ last' # last) =>
        LET io == last'.io IN
        /\ Len(io) = 3
        /\ io[1] = Write("*TST?")
        /\ io[2][1] = "sleep"
        /\ io[3][1] = "read"
        /\ last'.raised = "none"
        /\ last'.result[2] = int(io[3][2])
        /\ last'.result[3] \in {"Self test passed", "Self test failed"}
        /\ (last'.result[3] = "Self test passed") <=> (last'.result[2] = 0) ]_vars

\* The device answered the self test with a nonzero code.
C21_Witness ==
  /\ ~simulate
  /\ last.op = "self_test"
  /\ last.io = <<Write("*TST?"), Sleep("40"), ReadLine("1")>>
  /\ last.result = Tuple(1, "Self test failed")

(***************************************************************************)
(* Properties of the measurement result                                    *)
(***************************************************************************)

\* C22: a non-simulate measurement fetch returns NaN when the first field of
\* the MSR<slot>? reply is the sentinel 9.91e37 and the number in that field
\* for every other reply, whether the slot was just configured or reused.
C22_SentinelMapping ==
  [][ (~simulate /\ Fetched /\ Supported(last')) =>
        LET reply == last'.io[Len(last'.io)][3] IN
        /\ last'.raised = "none"
        /\ (last'.result = NaN) <=> (reply = "9.91E+37,NG")
        /\ reply = "1.000E+03,OK" => last'.result = N(1000)
        /\ reply = "2.500E+02,OK" => last'.result = N(250)
        /\ reply = "9.90E+37,OK" => last'.result = <<"float", "9.9e37">> ]_vars

\* A slot that already held the pair answered with the sentinel.
C22_Witness ==
  /\ ~simulate
  /\ last.op = "fetch_waveform_measurement"
  /\ Len(last.io) = 1
  /\ last.io[1][3] = "9.91E+37,NG"
  /\ last.result = NaN

(***************************************************************************)
(* Further properties of the slot allocator                                *)
(***************************************************************************)

\* Every table over an empty slot, the requested pair and another pair,
\* whether the driver can build it or not.
AnyTables(wanted, other) == [SlotIds -> {None, wanted, other}]

\* The scan on any table in which no slot holds the requested pair and some
\* slot is empty selects an empty slot.
ScanPrefersEmpty ==
  LET wanted == <<"CH1", "freq">>
      other == <<"CH2", "period">>
  IN  \A slots \in AnyTables(wanted, other) :
        (Holders(slots, wanted) = {} /\ EmptySlots(slots) # {})
          => /\ SelectSlot(slots, wanted).must_configure
             /\ SelectSlot(slots, wanted).selected_slot \in EmptySlots(slots)

\* C23: while a slot is empty, a fetch of a pair no slot holds assigns the
\* pair to one empty slot and changes no assigned slot; the scan prefers an
\* empty slot wherever the empty and the assigned slots lie in the scan
\* order (a property of the scan alone, evaluated on the first step).
C23_EmptyBeforeEviction ==
  [][ /\ last.op = "init" => ScanPrefersEmpty
      /\ (FetchConfigures /\ EmptySlots(measurement_slots) # {}) =>
           /\ Cardinality(ChangedSlots) = 1
           /\ ChangedSlots \subseteq EmptySlots(measurement_slots)
           /\ last'.old = None
           /\ \A s \in SlotIds \ EmptySlots(measurement_slots) :
                measurement_slots'[s] = measurement_slots[s] ]_vars

\* A pair was assigned to the last empty slot of a table with three assigned
\* slots.
C23_Witness ==
  /\ ~simulate
  /\ last.op = "fetch_waveform_measurement"
  /\ Len(last.io) = 6
  /\ last.old = None
  /\ EmptySlots(measurement_slots) = {}

(***************************************************************************)
(* Frame of an attribute write                                             *)
(***************************************************************************)

\* The entries whose value or validity flag the step changes.
ChangedEntries ==
  {e \in Entries : val'[e] # val[e] \/ cache_valid'[e] # cache_valid[e]}

\* The step is a successful write of a channel attribute.
WroteChannel ==
  Wrote(last') /\ last' # last /\ last'.tag \in ChannelTags

\* The attributes whose setter runs the setter of another attribute.
Delegates(tag) ==
  CASE tag = "channel_input_frequency_max" -> {"channel_bw_limit"}
    [] tag = "channel_range" -> {"channel_scale"}
    [] OTHER -> {}

\* C24 as stated: a successful write of a channel attribute changes only the
\* attribute's own entry and the entries the cross-dependency table lists
\* for it, at the same index.
C24_FrameOfTable ==
  [][ WroteChannel =>
        \A e \in ChangedEntries :
          /\ e[2] = last'.index
          /\ e[1] \in {last'.tag} \cup Dependents(last'.tag) ]_vars

\* C24: a successful write of a channel attribute changes no entry of
\* another index and no global entry; at its own index it changes only the
\* attribute's own entry, the entries the cross-dependency table lists for
\* it, and the entry of the attribute whose setter it runs (the bandwidth
\* limit for the maximum input frequency, the scale for the range).
C24_FrameOfWrite ==
  [][ WroteChannel =>
        \A e \in ChangedEntries :
          /\ e[2] = last'.index
          /\ e[1] \in {last'.tag} \cup Dependents(last'.tag)
                        \cup Delegates(last'.tag) ]_vars

\* A maximum input frequency below 20 MHz was written and the bandwidth limit
\* entry of the channel was filled on the way.
C24_Witness ==
  /\ ~simulate
  /\ Wrote(last)
  /\ last.tag = "channel_input_frequency_max"
  /\ cache_valid[<<"channel_bw_limit", last.index>>]
  /\ val[<<"channel_bw_limit", last.index>>] = S("20m")

(***************************************************************************)
(* Invariants of the slot table                                            *)
(***************************************************************************)

\* C25: no two slots hold the same (channel, function) pair.
C25_SlotUniqueness ==
  \A s, t \in SlotIds :
     (s # t /\ measurement_slots[s] # None) =>
        measurement_slots[s] # measurement_slots[t]

\* Every slot is assigned, and the last fetch found its pair in the table
\* behind slots holding other pairs.
C25_Witness ==
  /\ EmptySlots(measurement_slots) = {}
  /\ last.op = "fetch_waveform_measurement"
  /\ last.raised = "none"
  /\ Len(last.io) = 1
  /\ Holders(measurement_slots, Pair(last.index, last.arg[2])) = {LastOf(SlotIds)}

(***************************************************************************)
(* The slot table and the instrument                                       *)
(***************************************************************************)

\* The step is a non-simulate fetch that only queries a slot.
FetchSkipsConfigure ==
  /\ Fetched /\ ~simulate /\ Supported(last')
  /\ last'.raised = "none"
  /\ Len(last'.io) = 1

\* C26: whenever a non-simulate fetch skips the configuration of a slot, the
\* instrument's binding of that slot is the requested (channel, function)
\* pair.
C26_TableAgreesWithDevice ==
  [][ FetchSkipsConfigure =>
        \A s \in SlotIds :
           IsQueryOf(last'.io, s) => device_slots[s] = WantedOf(last') ]_vars

\* C27: when a transport write raises while a slot is being configured, the
\* slot table is left exactly as it was before the call.
C27_FailedConfigureKeepsTable ==
  [][ (last'.op = "fetch_waveform_measurement" /\ last'.raised = "IOError") =>
        measurement_slots' = measurement_slots ]_vars

(***************************************************************************)
(* Round trips while simulating                                            *)
(***************************************************************************)

\* C28: simulating, a get that directly follows a successful set(x) of a
\* settable attribute, the scales and ranges included, returns x.
C28_SimulateRoundTrip ==
  [][ ( /\ simulate /\ Wrote(last) /\ last.tag \in SetterTags
        /\ last'.op = "get" /\ SameEntry(last', last) )
      => /\ last'.raised = "none"
         /\ last'.result = last.arg ]_vars

(***************************************************************************)
(* The derived time per record                                             *)
(***************************************************************************)

\* What a read of the timebase range returns in the current state when the
\* device answers reply, should the read ask.
RangeReadNow(reply) ==
  TimebaseScaleRead(val, cache_valid, reply).val[<<"timebase_range", NoIndex>>]

\* C29: not simulating, a read of the acquisition time per record returns what
\* a read of the timebase range returns in the same state (with the same
\* answer of the device where the read asked, with some answer where it did
\* not).
C29_TimePerRecordFresh ==
  [][ ( /\ ~simulate /\ Read(last') /\ last' # last
        /\ last'.tag = "acquisition_time_per_record" )
      => \E reply \in TDIVReplies :
            /\ last'.io # <<>> => last'.io = <<Ask("TDIV?", reply)>>
            /\ last'.result = RangeReadNow(reply) ]_vars

(***************************************************************************)
(* Frame of the waveform fetch                                             *)
(***************************************************************************)

\* The probe attenuation entry of the channel fetched, the query that fills
\* it, and the positions of an io trace where that query is asked.
ProbeEntry(l) == <<"channel_probe_attenuation", l.index>>
ProbeQuery(l) == channel_command_name[l.index] \o ":PROBE?"
ProbeAsks(l) ==
  {k \in 1..Len(l.io) : l.io[k][1] = "ask" /\ l.io[k][2] = ProbeQuery(l)}

\* C30 as stated: a non-simulate waveform fetch leaves the slot table and the
\* value and validity of every cache entry as they were, and issues no
\* command other than the seven of the transfer protocol.
C30_FetchChangesNothing ==
  [][ (~simulate /\ FetchedWaveform) =>
        /\ measurement_slots' = measurement_slots
        /\ val' = val
        /\ cache_valid' = cache_valid
        /\ \A k \in 1..Len(Commands(last'.io)) :
              Commands(last'.io)[k] \in TransferCommands ]_vars

\* C30: a non-simulate waveform fetch leaves the slot table and every cache
\* entry but the probe attenuation of the channel fetched as they were.  That
\* entry is left as it was, without a query, when it is valid; when it is
\* invalid the fetch asks <channel>:PROBE? once, stores the attenuation
\* answered and marks the entry valid.  The fetch issues no command other
\* than the seven of the transfer protocol and this query.
C30_FetchFrame ==
  [][ (~simulate /\ FetchedWaveform) =>
        LET e == ProbeEntry(last')
            asks == ProbeAsks(last')
        IN  /\ measurement_slots' = measurement_slots
            /\ \A f \in Entries \ {e} :
                  val'[f] = val[f] /\ cache_valid'[f] = cache_valid[f]
            /\ cache_valid'[e]
            /\ cache_valid[e] => (val'[e] = val[e] /\ asks = {})
            /\ ~cache_valid[e] =>
                 /\ Cardinality(asks) = 1
                 /\ \A k \in asks :
                       val'[e] = N(int(SplitProbe(last'.io[k][3])[2]))
            /\ \A k \in 1..Len(Commands(last'.io)) :
                  Commands(last'.io)[k] \in TransferCommands \cup {ProbeQuery(last')}
      ]_vars

\* A waveform of the first channel was fetched with the probe attenuation
\* entry invalid: the attenuation was asked for between the preamble and the
\* data, and the entry holds the answer.
C30_Witness ==
  /\ ~simulate
  /\ last.op = "fetch_waveform" /\ last.index = 0
  /\ ProbeAsks(last) = {7}
  /\ last.io[7] = Ask("C1:PROBE?", "AUTO,10")
  /\ cache_valid[ProbeEntry(last)]
  /\ val[ProbeEntry(last)] = N(10)

====
